---- MODULE Spec2Model ----
(***************************************************************************)
(* Price aggregation and change/arbitrage detection of the HOLDER price    *)
(* bot: PriceTracker (shared/price_tracker.py), SimpleCache                *)
(* (shared/cache.py), the historical store (shared/database.py), the       *)
(* polling loop price_monitoring_task (bot/main.py), the command handlers  *)
(* (bot/handlers), the API endpoints and the WebSocket connection manager  *)
(* (miniapp/backend/app/main.py) and the rate-limit-cached CEX adapter     *)
(* get_origami_price (miniapp/backend/index.py).                           *)
(*                                                                         *)
(* Prices are Python floats in the source.  They are modelled as integers  *)
(* in hundredths (100 is 1.00) and percentages as exact fractions n/d, so  *)
(* every comparison is the exact rational one.                             *)
(***************************************************************************)
EXTENDS Integers, Sequences, FiniteSets, TLC

VARIABLES now, cache, previous_prices, history, arbitrage_history, config,
          pc, wakeAt, solo, lastGet, fetched, cycles, call, origami_cache,
          local_prices, session, user_alerts, active_connections, broadcast

vars == <<now, cache, previous_prices, history, arbitrage_history, config,
          pc, wakeAt, solo, lastGet, fetched, cycles, call, origami_cache,
          local_prices, session, user_alerts, active_connections, broadcast>>

(***************************************************************************)
(* Bounds of the model.                                                    *)
(***************************************************************************)
MaxTime == 62
MaxHistory == 2
MaxArbHistory == 1
MaxAdapterCalls == 2

(***************************************************************************)
(* Program constants.                                                      *)
(***************************************************************************)
CACHE_TTL == 30
DEFAULT_CHECK_INTERVAL == 60
ERROR_COOLDOWN == 60
DEFAULT_ALERT_THRESHOLD == 5
LOOP_ARB_THRESHOLD == 2
HISTORY_HOURS_SECONDS == 86400
\* limit=1000 of the history query, scaled to the histories of the model,
\* whose 24-hour windows hold up to three rows of a source.
HISTORY_LIMIT == 2

SourceKeys == {"dex_ton", "dex_usdt", "cex"}
KeyOrder == <<"dex_ton", "dex_usdt", "cex">>

(***************************************************************************)
(* Python values a 'price' field can hold: a float ("num", v hundredths),  *)
(* a string that float() parses ("numstr", v the parsed number), a string  *)
(* that float() rejects ("badstr"), or None ("none").                      *)
(***************************************************************************)
Num(n) == [k |-> "num", v |-> n]
NumStr(n) == [k |-> "numstr", v |-> n]
BadStr == [k |-> "badstr", v |-> 0]
NoneVal == [k |-> "none", v |-> 0]

\* Python truthiness: None and 0.0 are falsy, every non-empty string is truthy.
Truthy(x) ==
    CASE x.k = "num" -> x.v # 0
      [] x.k = "numstr" -> TRUE
      [] x.k = "badstr" -> TRUE
      [] OTHER -> FALSE

\* float(x): the exception it raises, "none" when it succeeds.
FloatRaises(x) ==
    CASE x.k = "badstr" -> "ValueError"
      [] x.k = "none" -> "TypeError"
      [] OTHER -> "none"

Abs(n) == IF n < 0 THEN -n ELSE n

\* Snapshot dictionaries: functions from a subset of the source keys.
EmptyDict == [s \in {} |-> 0]
Keys(d) == DOMAIN d
Put(d, key, val) == [s \in (DOMAIN d) \cup {key} |-> IF s = key THEN val ELSE d[s]]

SourceName(key) ==
    CASE key = "dex_ton" -> "stonfi_dex"
      [] key = "dex_usdt" -> "stonfi_dex_usdt"
      [] OTHER -> "weex_cex"

PairName(key) == IF key = "dex_ton" THEN "HOLDER/TON" ELSE "HOLDER/USDT"

\* The record an adapter returns: derived fields start at 0.
MkRecord(key, price, price_usd, ts) ==
    [source |-> SourceName(key), pair |-> PairName(key),
     price |-> price, price_usd |-> price_usd,
     change_24h |-> <<0, 1>>, high_24h |-> 0, low_24h |-> 0,
     timestamp |-> ts]

(***************************************************************************)
(* Change detector: PriceTracker.check_significant_changes.                *)
(***************************************************************************)
\* One iteration of the loop over current_prices.items(): "skip" (no event),
\* "event", or the name of an exception that escapes the try block.
\* Variant: the threshold comparison is strict.
SigOutcome_StrictThreshold(key, price_data, prev, threshold) ==
    IF key \notin DOMAIN prev THEN "skip"
    ELSE LET current_price == price_data.price
             previous_price == prev[key]
         IN IF ~(Truthy(current_price) /\ Truthy(previous_price)) THEN "skip"
            ELSE IF FloatRaises(current_price) # "none" THEN "skip"
            ELSE IF FloatRaises(previous_price) # "none" THEN "skip"
            ELSE IF previous_price.v = 0 THEN "ZeroDivisionError"
            ELSE IF Abs((current_price.v - previous_price.v) * 100)
                       > threshold * Abs(previous_price.v)
                 THEN "event" ELSE "skip"

SigOutcome(key, price_data, prev, threshold) ==
    IF key \notin DOMAIN prev THEN "skip"
    ELSE LET current_price == price_data.price
             previous_price == prev[key]
         IN IF ~(Truthy(current_price) /\ Truthy(previous_price)) THEN "skip"
            ELSE IF FloatRaises(current_price) # "none" THEN "skip"
            ELSE IF FloatRaises(previous_price) # "none" THEN "skip"
            ELSE IF previous_price.v = 0 THEN "ZeroDivisionError"
            ELSE IF Abs((current_price.v - previous_price.v) * 100)
                       >= threshold * Abs(previous_price.v)
                 THEN "event" ELSE "skip"

ChangeEvent(key, price_data, prev, ts) ==
    [source |-> price_data.source, pair |-> price_data.pair,
     percent |-> <<(price_data.price.v - prev[key].v) * 100, prev[key].v>>,
     new_price |-> price_data.price.v, old_price |-> prev[key].v,
     timestamp |-> ts]

RECURSIVE SigLoop(_, _, _, _, _, _)
SigLoop(i, current_prices, prev, threshold, ts, changes) ==
    IF i > Len(KeyOrder) THEN [raised |-> "none", changes |-> changes]
    ELSE LET key == KeyOrder[i] IN
         IF key \notin DOMAIN current_prices
         THEN SigLoop(i + 1, current_prices, prev, threshold, ts, changes)
         ELSE LET o == SigOutcome(key, current_prices[key], prev, threshold) IN
              CASE o = "skip" ->
                     SigLoop(i + 1, current_prices, prev, threshold, ts, changes)
                [] o = "event" ->
                     SigLoop(i + 1, current_prices, prev, threshold, ts,
                             Append(changes,
                                    ChangeEvent(key, current_prices[key], prev, ts)))
                [] OTHER -> [raised |-> o, changes |-> <<>>]

check_significant_changes(current_prices, threshold, prev, ts) ==
    SigLoop(1, current_prices, prev, threshold, ts, <<>>)

(***************************************************************************)
(* Arbitrage detector: PriceTracker.check_arbitrage_opportunity.           *)
(***************************************************************************)
NoArbEvent ==
    [buy_on |-> "", sell_on |-> "", buy_price |-> 0, sell_price |-> 0,
     profit_percent |-> <<0, 1>>, timestamp |-> 0]

ArbNone == [raised |-> "none", present |-> FALSE, event |-> NoArbEvent]
ArbRaise(e) == [raised |-> e, present |-> FALSE, event |-> NoArbEvent]

\* prices.get(key) is falsy when the key is missing.
DictGetTruthy(prices, key) == key \in DOMAIN prices

\* Variant: the difference is taken relative to the DEX price.
ArbFromLegs_RelativeToDex(dex_usdt_price, cex_price, threshold, ts) ==
    LET n == (dex_usdt_price - cex_price) * 100
        d == dex_usdt_price
        positive == (n > 0 /\ d > 0) \/ (n < 0 /\ d < 0)
        buy_on == IF positive THEN "STON.fi DEX" ELSE "WEEX CEX"
        sell_on == IF positive THEN "WEEX CEX" ELSE "STON.fi DEX"
    IN IF Abs(n) >= threshold * Abs(d)
       THEN [raised |-> "none", present |-> TRUE,
             event |->
               [buy_on |-> buy_on, sell_on |-> sell_on,
                buy_price |-> IF buy_on = "WEEX CEX"
                              THEN cex_price ELSE dex_usdt_price,
                sell_price |-> IF sell_on = "STON.fi DEX"
                               THEN dex_usdt_price ELSE cex_price,
                profit_percent |-> <<Abs(n), Abs(d)>>,
                timestamp |-> ts]]
       ELSE ArbNone

\* Lines 530-546: the percentage difference of two numeric legs, relative to
\* the CEX price, and the event when it reaches the threshold.
ArbFromLegs(dex_usdt_price, cex_price, threshold, ts) ==
    LET n == (dex_usdt_price - cex_price) * 100
        d == cex_price
        positive == (n > 0 /\ d > 0) \/ (n < 0 /\ d < 0)
        buy_on == IF positive THEN "STON.fi DEX" ELSE "WEEX CEX"
        sell_on == IF positive THEN "WEEX CEX" ELSE "STON.fi DEX"
    IN IF Abs(n) >= threshold * Abs(d)
       THEN [raised |-> "none", present |-> TRUE,
             event |->
               [buy_on |-> buy_on, sell_on |-> sell_on,
                buy_price |-> IF buy_on = "WEEX CEX"
                              THEN cex_price ELSE dex_usdt_price,
                sell_price |-> IF sell_on = "STON.fi DEX"
                               THEN dex_usdt_price ELSE cex_price,
                profit_percent |-> <<Abs(n), Abs(d)>>,
                timestamp |-> ts]]
       ELSE ArbNone

\* Variant: a missing dex_usdt leg is replaced by the dex_ton record.
check_arbitrage_opportunity_AnyDexLeg(prices, threshold, ts) ==
    LET dexKey == IF DictGetTruthy(prices, "dex_usdt") THEN "dex_usdt"
                  ELSE "dex_ton"
    IN IF ~DictGetTruthy(prices, dexKey) \/ ~DictGetTruthy(prices, "cex")
       THEN ArbNone
       ELSE LET dex_usdt_price == prices[dexKey].price
                cex_price == prices["cex"].price_usd
            IN IF ~Truthy(dex_usdt_price) \/ ~Truthy(cex_price) THEN ArbNone
               ELSE IF dex_usdt_price.k # "num" \/ cex_price.k # "num"
                    THEN ArbRaise("TypeError")
               ELSE ArbFromLegs(dex_usdt_price.v, cex_price.v,
                                threshold, ts)

check_arbitrage_opportunity(prices, threshold, ts) ==
    IF ~DictGetTruthy(prices, "dex_usdt") \/ ~DictGetTruthy(prices, "cex")
    THEN ArbNone
    ELSE LET dex_usdt_price == prices["dex_usdt"].price
             cex_price == prices["cex"].price_usd
         IN IF ~Truthy(dex_usdt_price) \/ ~Truthy(cex_price) THEN ArbNone
            \* a str operand of '-' or '/' raises TypeError; nothing catches it
            ELSE IF dex_usdt_price.k # "num" \/ cex_price.k # "num"
                 THEN ArbRaise("TypeError")
            ELSE ArbFromLegs(dex_usdt_price.v, cex_price.v,
                             threshold, ts)

NoSig == [raised |-> "none", changes |-> <<>>]

(***************************************************************************)
(* SimpleCache (shared/cache.py).  The cache is a dict from keys to        *)
(* (value, timestamp); only the key 'all_prices' is used by the tracker.   *)
(***************************************************************************)
NoValue == EmptyDict

\* SimpleCache.get: the value returned (hit says whether it is not None) and
\* the cache afterwards: an expired entry is deleted.
\* Variant: an entry whose age equals max_age_seconds is already expired.
CacheGet_ExpiresAtMaxAge(c, key, max_age_seconds, t) ==
    IF key \notin DOMAIN c
    THEN [hit |-> FALSE, value |-> NoValue, cache |-> c]
    ELSE IF t - c[key].timestamp >= max_age_seconds
         THEN [hit |-> FALSE, value |-> NoValue,
               cache |-> [x \in (DOMAIN c) \ {key} |-> c[x]]]
         ELSE [hit |-> TRUE, value |-> c[key].value, cache |-> c]

CacheGet(c, key, max_age_seconds, t) ==
    IF key \notin DOMAIN c
    THEN [hit |-> FALSE, value |-> NoValue, cache |-> c]
    ELSE IF t - c[key].timestamp > max_age_seconds
         THEN [hit |-> FALSE, value |-> NoValue,
               cache |-> [x \in (DOMAIN c) \ {key} |-> c[x]]]
         ELSE [hit |-> TRUE, value |-> c[key].value, cache |-> c]

\* SimpleCache.set
CacheSet(c, key, value, t) == Put(c, key, [value |-> value, timestamp |-> t])

(***************************************************************************)
(* Historical store (shared/database.py): price_history rows, oldest first.*)
(***************************************************************************)
\* Database.save_price: appends one row; a database error is caught and the
\* row is not stored.
save_price(h, price_data, ok) ==
    IF ok /\ Len(h) < MaxHistory
    THEN Append(h, [source |-> price_data.source, price |-> price_data.price,
                    timestamp |-> price_data.timestamp])
    ELSE h

\* Database.get_price_history(source, hours=24, limit): rows of the source in
\* the window, newest first, at most limit of them; [] on a database error.
RECURSIVE Reverse(_)
Reverse(q) == IF q = <<>> THEN <<>> ELSE Append(Reverse(Tail(q)), Head(q))

\* Variant: the query has no WHERE clause on the timestamp.
get_price_history_AllTime(h, source, limit, t, ok) ==
    IF ~ok THEN <<>>
    ELSE LET newest == Reverse(SelectSeq(h, LAMBDA r: r.source = source))
         IN IF Len(newest) > limit THEN SubSeq(newest, 1, limit) ELSE newest

get_price_history(h, source, limit, t, ok) ==
    IF ~ok THEN <<>>
    ELSE LET newest == Reverse(SelectSeq(h, LAMBDA r:
                           r.source = source
                           /\ r.timestamp >= t - HISTORY_HOURS_SECONDS))
         IN IF Len(newest) > limit THEN SubSeq(newest, 1, limit) ELSE newest

RECURSIVE SeqMax(_)
SeqMax(q) == IF Len(q) = 1 THEN q[1]
             ELSE LET m == SeqMax(Tail(q)) IN IF q[1] > m THEN q[1] ELSE m

RECURSIVE SeqMin(_)
SeqMin(q) == IF Len(q) = 1 THEN q[1]
             ELSE LET m == SeqMin(Tail(q)) IN IF q[1] < m THEN q[1] ELSE m

\* The body of the loop of enrich_with_db_stats for one record.
\* Variant: the change is added to the change_24h the record already holds.
EnrichRecord_Cumulative(price_data, h, t, ok) ==
    LET current_price == price_data.price IN
    IF ~Truthy(current_price) THEN price_data
    ELSE LET rows == get_price_history(h, price_data.source, HISTORY_LIMIT, t, ok)
             kept == SelectSeq(rows, LAMBDA r: Truthy(r.price))
             historical_prices == [i \in 1..Len(kept) |-> kept[i].price.v]
         IN IF Len(rows) > 1 /\ Len(historical_prices) > 0
            THEN LET all == Append(historical_prices, current_price.v)
                     oldest_price == historical_prices[Len(historical_prices)]
                 IN [price_data EXCEPT
                       !.high_24h = SeqMax(all),
                       !.low_24h = SeqMin(all),
                       !.change_24h =
                           IF oldest_price > 0
                           THEN <<@[1] * oldest_price
                                    + (current_price.v - oldest_price) * 100 * @[2],
                                  @[2] * oldest_price>>
                           ELSE @]
            ELSE price_data

EnrichRecord(price_data, h, t, ok) ==
    LET current_price == price_data.price IN
    IF ~Truthy(current_price) THEN price_data
    ELSE LET rows == get_price_history(h, price_data.source, HISTORY_LIMIT, t, ok)
             kept == SelectSeq(rows, LAMBDA r: Truthy(r.price))
             historical_prices == [i \in 1..Len(kept) |-> kept[i].price.v]
         IN IF Len(rows) > 1 /\ Len(historical_prices) > 0
            THEN LET all == Append(historical_prices, current_price.v)
                     oldest_price == historical_prices[Len(historical_prices)]
                 IN [price_data EXCEPT
                       !.high_24h = SeqMax(all),
                       !.low_24h = SeqMin(all),
                       !.change_24h =
                           IF oldest_price > 0
                           THEN <<(current_price.v - oldest_price) * 100,
                                  oldest_price>>
                           ELSE @]
            ELSE price_data

\* enrich_with_db_stats: when Database() raises, nothing is enriched.
\* Variant: a database error empties the snapshot.
enrich_with_db_stats_DropOnError(prices, h, t, dbOk) ==
    IF ~dbOk THEN EmptyDict
    ELSE [key \in DOMAIN prices |-> EnrichRecord(prices[key], h, t, TRUE)]

enrich_with_db_stats(prices, h, t, dbOk) ==
    IF ~dbOk THEN prices
    ELSE [key \in DOMAIN prices |-> EnrichRecord(prices[key], h, t, TRUE)]

(***************************************************************************)
(* Aggregator: PriceTracker.get_all_prices.                                *)
(***************************************************************************)
\* Prices the upstreams quote in this model, per source, and the TON/USDT
\* rates _get_ton_usdt_price finds.
AdapterPrices(key) == IF key = "cex" THEN {100, 105} ELSE {100}
TonRates == {2}

\* What one source adapter can return when it succeeds.
AdapterOutputs(key, t) ==
    IF key = "dex_ton"
    THEN {MkRecord(key, Num(p), Num(p * r), t) :
            p \in AdapterPrices(key), r \in TonRates}
    ELSE {MkRecord(key, Num(p), Num(p), t) : p \in AdapterPrices(key)}

\* The outcome of asyncio.gather: the records of the adapters that succeeded;
\* an adapter that returned None or raised has no entry.
GatherResults(t) ==
    UNION {{f \in [D -> UNION {AdapterOutputs(k, t) : k \in D}] :
              \A k \in D : f[k] \in AdapterOutputs(k, t)} :
           D \in SUBSET SourceKeys}

\* Lines 328-340: merge the results and overwrite the baseline of every
\* source that produced a record.
MergeBaseline(prev, results) ==
    [k \in (DOMAIN prev) \cup (DOMAIN results) |->
        IF k \in DOMAIN results THEN results[k].price ELSE prev[k]]

\* Lines 345-349.
\* Variant: one side is enough for the snapshot to be cached.
IsComplete_EitherSide(prices) ==
    LET has_dex == "dex_ton" \in DOMAIN prices \/ "dex_usdt" \in DOMAIN prices
        has_cex == "cex" \in DOMAIN prices
    IN has_dex \/ has_cex

IsComplete(prices) ==
    LET has_dex == "dex_ton" \in DOMAIN prices \/ "dex_usdt" \in DOMAIN prices
        has_cex == "cex" \in DOMAIN prices
    IN has_dex /\ has_cex

\* Lines 313-355, the path after a cache miss once the adapters have answered.
\* Variant: a source without a result is filled from the cached snapshot.
FetchAllPrices_FillFromCache(c, prev, h, results, dbOk, t) ==
    LET stale == IF "all_prices" \in DOMAIN c THEN c["all_prices"].value
                 ELSE EmptyDict
        filled == [k \in (DOMAIN results) \cup (DOMAIN stale) |->
                      IF k \in DOMAIN results THEN results[k] ELSE stale[k]]
        prices == enrich_with_db_stats(filled, h, t, dbOk)
    IN [prices |-> prices,
        previous_prices |-> MergeBaseline(prev, results),
        cache |-> IF IsComplete(prices) THEN CacheSet(c, "all_prices", prices, t)
                  ELSE c]

FetchAllPrices(c, prev, h, results, dbOk, t) ==
    LET prices == enrich_with_db_stats(results, h, t, dbOk) IN
    [prices |-> prices,
     previous_prices |-> MergeBaseline(prev, results),
     cache |-> IF IsComplete(prices) THEN CacheSet(c, "all_prices", prices, t)
               ELSE c]

(***************************************************************************)
(* Polling loop: price_monitoring_task (bot/main.py).                      *)
(***************************************************************************)
Consumers == {"c1", "c2"}
Callers == {"loop"} \cup Consumers

\* Database.save_arbitrage_opportunity
save_arbitrage_opportunity(ah, arb_data, ok) ==
    IF ok /\ Len(ah) < MaxArbHistory
    THEN Append(ah,
           [dex_price |-> IF arb_data.buy_on = "DEX" THEN arb_data.buy_price
                          ELSE arb_data.sell_price,
            cex_price |-> IF arb_data.buy_on = "CEX" THEN arb_data.buy_price
                          ELSE arb_data.sell_price,
            profit_percent |-> arb_data.profit_percent,
            buy_on |-> arb_data.buy_on, sell_on |-> arb_data.sell_on])
    ELSE ah

\* Lines 91-96.
SavePrices(h, prices, ok) ==
    LET h1 == IF "dex_ton" \in DOMAIN prices
              THEN save_price(h, prices["dex_ton"], ok) ELSE h
        h2 == IF "dex_usdt" \in DOMAIN prices
              THEN save_price(h1, prices["dex_usdt"], ok) ELSE h1
    IN IF "cex" \in DOMAIN prices THEN save_price(h2, prices["cex"], ok) ELSE h2

\* Lines 90-162: what one loop iteration does with the snapshot get_all_prices
\* returned.  nullAlert: get_active_alerts('price_change') returns a row whose
\* threshold is NULL, so the comparison of line 116 raises TypeError.
\* Variant: the exception leaves the while loop and the task is done.
ProcessCycle_ExceptionEscapes(prices, prev, h, ah, threshold, interval, saveOk, nullAlert, t) ==
    LET sig == check_significant_changes(prices, threshold, prev, t)
        raised1 == sig.raised # "none" \/ (Len(sig.changes) > 0 /\ nullAlert)
        arb == IF raised1 THEN ArbNone
               ELSE check_arbitrage_opportunity(prices, LOOP_ARB_THRESHOLD, t)
        raised == raised1 \/ arb.raised # "none"
    IN [history |-> SavePrices(h, prices, saveOk),
        arbitrage_history |->
            IF ~raised /\ arb.present
            THEN save_arbitrage_opportunity(ah, arb.event, saveOk) ELSE ah,
        sig |-> sig, arb |-> arb, raised |-> raised,
        pc |-> IF raised THEN "done" ELSE "sleep",
        wakeAt |-> t + (IF raised THEN ERROR_COOLDOWN ELSE interval)]

ProcessCycle(prices, prev, h, ah, threshold, interval, saveOk, nullAlert, t) ==
    LET sig == check_significant_changes(prices, threshold, prev, t)
        raised1 == sig.raised # "none" \/ (Len(sig.changes) > 0 /\ nullAlert)
        arb == IF raised1 THEN ArbNone
               ELSE check_arbitrage_opportunity(prices, LOOP_ARB_THRESHOLD, t)
        raised == raised1 \/ arb.raised # "none"
    IN [history |-> SavePrices(h, prices, saveOk),
        arbitrage_history |->
            IF ~raised /\ arb.present
            THEN save_arbitrage_opportunity(ah, arb.event, saveOk) ELSE ah,
        sig |-> sig, arb |-> arb, raised |-> raised,
        pc |-> IF raised THEN "cooldown" ELSE "sleep",
        wakeAt |-> t + (IF raised THEN ERROR_COOLDOWN ELSE interval)]

(***************************************************************************)
(* State machine.                                                          *)
(*   now                time.time()                                        *)
(*   cache              tracker.cache._cache                               *)
(*   previous_prices    tracker.previous_prices                            *)
(*   history            rows of price_history                              *)
(*   arbitrage_history  rows of arbitrage_history                          *)
(*   config             ALERT_THRESHOLD and CHECK_INTERVAL of config.py    *)
(*   pc, wakeAt         where each coroutine is suspended                  *)
(*   origami_cache      _origami_cache of miniapp/backend/index.py         *)
(*   local_prices       the local dict 'prices' of each call in flight     *)
(*   session            tracker.session: "None", "open" or "closed"        *)
(*   user_alerts        rows of user_alerts, by (user, alert type)         *)
(*   active_connections manager.active_connections of the mini-app backend *)
(*   broadcast          the position of the broadcast coroutine            *)
(* Observations kept for the properties:                                   *)
(*   solo      no other fan-out finished while the caller's is in flight   *)
(*   lastGet   the cache decision of the latest get_all_prices call        *)
(*   fetched   the latest fan-out that finished, and the latest complete   *)
(*   cycles    the prices of the previous loop iteration                   *)
(*   call      the latest call observed, its inputs and results            *)
(***************************************************************************)
AlertThresholds == {0, DEFAULT_ALERT_THRESHOLD}
CheckIntervals == {30, DEFAULT_CHECK_INTERVAL}
TickSteps == {30, 31}

\* What price_history can hold when the process starts.
InitialHistories ==
    {<<>>,
     <<[source |-> "weex_cex", price |-> Num(100), timestamp |-> 0],
       [source |-> "weex_cex", price |-> Num(105), timestamp |-> 0]>>}

\* No broadcast is running.
NoBroadcast == [running |-> FALSE, index |-> 0]

\* index.py line 123: {"data": None, "timestamp": None}.
NoRecord == [source |-> "None"]
NoOrigamiCache == [data |-> NoRecord, timestamp |-> 0]

\* The dict 'prices' of each get_all_prices call in flight (line 328).
NoLocals == [c \in Callers |-> EmptyDict]

NoFetch == [valid |-> FALSE, prices |-> EmptyDict, at |-> 0]
NoCall == [op |-> "none", prices |-> EmptyDict, threshold |-> 0,
           baseline |-> EmptyDict, startBaseline |-> EmptyDict,
           sig |-> NoSig, arb |-> ArbNone, raised |-> FALSE]
NoGet == [caller |-> "none", at |-> 0, hit |-> FALSE, fresh |-> FALSE,
          verbatim |-> FALSE, afterIncomplete |-> FALSE]

Init ==
    /\ now = 0
    /\ cache = EmptyDict
    /\ previous_prices = EmptyDict
    /\ history \in InitialHistories
    /\ arbitrage_history = <<>>
    /\ config \in [ALERT_THRESHOLD : AlertThresholds,
                   CHECK_INTERVAL : CheckIntervals]
    /\ pc = [c \in Callers |-> IF c = "loop" THEN "sleep" ELSE "idle"]
    /\ wakeAt = 0
    /\ solo = [c \in Callers |-> TRUE]
    /\ lastGet = NoGet
    /\ fetched = [incompleteSolo |-> FALSE, lastComplete |-> NoFetch]
    /\ cycles = [prev |-> EmptyDict, startBaseline |-> EmptyDict]
    /\ call = NoCall
    /\ origami_cache = NoOrigamiCache
    /\ local_prices = NoLocals
    /\ session = "None"
    /\ user_alerts = EmptyDict
    /\ active_connections = <<>>
    /\ broadcast = NoBroadcast

\* The cache check that opens get_all_prices (lines 307-311), as caller c sees
\* it.  at: when the call was made; fresh: a complete snapshot was produced
\* no longer than the TTL ago;
\* verbatim: the call returned that snapshot; afterIncomplete: the latest
\* fan-out to finish was incomplete and overlapped no other.
GetDecision(c, r) ==
    [caller |-> c, at |-> now, hit |-> r.hit,
     fresh |-> fetched.lastComplete.valid
               /\ now - fetched.lastComplete.at <= CACHE_TTL,
     verbatim |-> r.hit /\ fetched.lastComplete.valid
                  /\ r.value = fetched.lastComplete.prices,
     afterIncomplete |-> fetched.incompleteSolo]

\* The snapshot holds a CEX source and at least one DEX source.
HasDexAndCex(prices) ==
    /\ "cex" \in DOMAIN prices
    /\ {"dex_ton", "dex_usdt"} \cap DOMAIN prices # {}

\* A fan-out of caller c finished with snapshot prices.
FetchDone(c, prices) ==
    LET f == [valid |-> TRUE, prices |-> prices, at |-> now]
    IN /\ fetched' = [incompleteSolo |-> ~HasDexAndCex(prices) /\ solo[c],
                      lastComplete |-> IF HasDexAndCex(prices) THEN f
                                       ELSE fetched.lastComplete]
       /\ solo' = [x \in Callers |-> IF x = c THEN TRUE
                                     ELSE IF pc[x] = "gather" THEN FALSE
                                     ELSE solo[x]]

PricesOf(prices) == [k \in DOMAIN prices |-> prices[k].price]

\* The rest of a loop iteration once get_all_prices has returned prices.
RunCycle(prices, prev, startBaseline, saveOk, nullAlert) ==
    \E r \in {ProcessCycle(prices, prev, history, arbitrage_history,
                           config.ALERT_THRESHOLD, config.CHECK_INTERVAL,
                           saveOk, nullAlert, now)} :
       /\ history' = r.history
       /\ arbitrage_history' = r.arbitrage_history
       /\ pc' = [pc EXCEPT !["loop"] = r.pc]
       /\ wakeAt' = r.wakeAt
       /\ cycles' = [prev |-> PricesOf(call.prices),
                     startBaseline |-> startBaseline]
       /\ call' = [op |-> "cycle", prices |-> prices,
                   threshold |-> config.ALERT_THRESHOLD,
                   baseline |-> prev, startBaseline |-> startBaseline,
                   sig |-> r.sig, arb |-> r.arb, raised |-> r.raised]

\* The loop wakes up, get_all_prices finds a fresh cache entry and the whole
\* iteration runs on the cached snapshot.
LoopCycleCached(saveOk, nullAlert) ==
    LET r == CacheGet(cache, "all_prices", CACHE_TTL, now) IN
    /\ pc["loop"] \in {"sleep", "cooldown"}
    /\ now >= wakeAt
    /\ r.hit
    /\ lastGet' = GetDecision("loop", r)
    /\ cache' = r.cache
    /\ RunCycle(r.value, previous_prices, previous_prices, saveOk, nullAlert)
    /\ UNCHANGED <<user_alerts, active_connections, broadcast,
                   local_prices, session, origami_cache,
                   now, previous_prices, config, solo, fetched>>

\* The loop wakes up, get_all_prices misses the cache and awaits the adapters.
LoopStartFetch ==
    LET r == CacheGet(cache, "all_prices", CACHE_TTL, now) IN
    /\ pc["loop"] \in {"sleep", "cooldown"}
    /\ now >= wakeAt
    /\ ~r.hit
    /\ lastGet' = GetDecision("loop", r)
    /\ cache' = r.cache
    /\ pc' = [pc EXCEPT !["loop"] = "gather"]
    /\ cycles' = [cycles EXCEPT !.startBaseline = previous_prices]
    /\ UNCHANGED <<user_alerts, active_connections, broadcast,
                   local_prices, session, origami_cache,
                   now, previous_prices, history, arbitrage_history, config,
                   wakeAt, solo, fetched, call>>

\* The adapters of the loop's get_all_prices have answered: merge, enrich,
\* cache, return, and run the rest of the iteration.
LoopGather(results, dbOk, saveOk, nullAlert) ==
    \E g \in {FetchAllPrices(cache, previous_prices, history, results, dbOk, now)} :
    /\ pc["loop"] = "gather"
    /\ previous_prices' = g.previous_prices
    /\ cache' = g.cache
    /\ FetchDone("loop", g.prices)
    /\ RunCycle(g.prices, g.previous_prices, cycles.startBaseline, saveOk, nullAlert)
    /\ UNCHANGED <<user_alerts, active_connections, broadcast,
                   local_prices, session, origami_cache, now, config, lastGet>>

\* A handler (show_portfolio) calls get_all_prices on the shared tracker.
ConsumerStart(c) ==
    LET r == CacheGet(cache, "all_prices", CACHE_TTL, now) IN
    /\ pc[c] = "idle"
    /\ lastGet' = GetDecision(c, r)
    /\ cache' = r.cache
    /\ pc' = [pc EXCEPT ![c] = IF r.hit THEN "idle" ELSE "gather"]
    /\ UNCHANGED <<user_alerts, active_connections, broadcast,
                   local_prices, session, origami_cache,
                   now, previous_prices, history, arbitrage_history, config,
                   wakeAt, solo, fetched, cycles, call>>

ConsumerGather(c, results, dbOk) ==
    \E g \in {FetchAllPrices(cache, previous_prices, history, results, dbOk, now)} :
    /\ pc[c] = "gather"
    /\ previous_prices' = g.previous_prices
    /\ cache' = g.cache
    /\ FetchDone(c, g.prices)
    /\ pc' = [pc EXCEPT ![c] = "idle"]
    /\ UNCHANGED <<user_alerts, active_connections, broadcast,
                   local_prices, session, origami_cache,
                   now, history, arbitrage_history, config, wakeAt, lastGet,
                   cycles, call>>

Tick(d) ==
    /\ now + d <= MaxTime
    /\ now' = now + d
    /\ UNCHANGED <<user_alerts, active_connections, broadcast,
                   local_prices, session, origami_cache,
                   cache, previous_prices, history, arbitrage_history, config,
                   pc, wakeAt, solo, lastGet, fetched, cycles, call>>

\* The polling loop driving the shared tracker.
Next ==
    \/ \E saveOk \in BOOLEAN, nullAlert \in BOOLEAN :
          LoopCycleCached(saveOk, nullAlert)
    \/ LoopStartFetch
    \/ /\ pc["loop"] = "gather"
       /\ \E results \in GatherResults(now), dbOk \in BOOLEAN,
             saveOk \in BOOLEAN, nullAlert \in BOOLEAN :
             LoopGather(results, dbOk, saveOk, nullAlert)
    \/ \E d \in TickSteps : Tick(d)

Spec == Init /\ [][Next]_vars

\* The loop under the scheduling of asyncio: time passes, a coroutine whose
\* sleep has ended is resumed, and the adapters answer or time out, so an
\* awaited gather returns.  The adapters answer all three or none, and the
\* cycle raises (nullAlert) or not.
LiveResults(t) ==
    {r \in GatherResults(t) : DOMAIN r \in {{}, SourceKeys}}

LoopStep ==
    \/ \E nullAlert \in BOOLEAN : LoopCycleCached(TRUE, nullAlert)
    \/ LoopStartFetch
    \/ \E results \in LiveResults(now), nullAlert \in BOOLEAN :
          LoopGather(results, TRUE, TRUE, nullAlert)

NextLive ==
    \/ LoopStep
    \/ \E d \in TickSteps : Tick(d)

\* ALERT_THRESHOLD=0 and CHECK_INTERVAL=30 in the environment, and an empty
\* price_history.
InitLive ==
    /\ Init
    /\ config = [ALERT_THRESHOLD |-> 0, CHECK_INTERVAL |-> 30]
    /\ history = <<>>

SpecLive ==
    /\ InitLive
    /\ [][NextLive]_vars
    /\ WF_vars(\E d \in TickSteps : Tick(d))
    /\ WF_vars(LoopStep)

\* Handlers calling get_all_prices on the shared tracker, overlapping.
NextCalls ==
    \/ \E c \in Consumers : ConsumerStart(c)
    \/ \E c \in Consumers :
          /\ pc[c] = "gather"
          /\ \E results \in GatherResults(now), dbOk \in BOOLEAN :
                ConsumerGather(c, results, dbOk)
    \/ \E d \in TickSteps : Tick(d)

\* The handlers read neither ALERT_THRESHOLD nor CHECK_INTERVAL.
InitCalls ==
    /\ Init
    /\ config = [ALERT_THRESHOLD |-> DEFAULT_ALERT_THRESHOLD,
                 CHECK_INTERVAL |-> DEFAULT_CHECK_INTERVAL]

SpecCalls == InitCalls /\ [][NextCalls]_vars

(***************************************************************************)
(* The detectors as functions: any caller may pass any snapshot, with any  *)
(* threshold, against any baseline the tracker can hold.  The functions    *)
(* keep nothing between calls, so one call per behaviour covers them.      *)
(***************************************************************************)
FnValues == {Num(0), Num(100), Num(103), Num(105), NumStr(0), BadStr, NoneVal}
FnThresholds == {0, 2, 3, 5}
BaselineValues == {Num(0), Num(100)}

FnValuesOf ==
    [key \in SourceKeys |->
        IF key = "dex_ton" THEN {Num(100), Num(105)} ELSE FnValues]

\* The dictionaries that map some of the source keys to one of their values.
DictsOver(values) ==
    UNION {{d \in [D -> UNION {values[k] : k \in D}] :
              \A k \in D : d[k] \in values[k]} :
           D \in SUBSET SourceKeys}

FnSnapshots ==
    {[k \in DOMAIN d |-> MkRecord(k, d[k], d[k], 0)] : d \in DictsOver(FnValuesOf)}

BaselineValuesOf == [key \in SourceKeys |-> BaselineValues]

InitFn ==
    /\ now = 0
    /\ cache = EmptyDict
    /\ previous_prices \in DictsOver(BaselineValuesOf)
    /\ history = <<>>
    /\ arbitrage_history = <<>>
    /\ config = [ALERT_THRESHOLD |-> DEFAULT_ALERT_THRESHOLD,
                 CHECK_INTERVAL |-> DEFAULT_CHECK_INTERVAL]
    /\ pc = [c \in Callers |-> IF c = "loop" THEN "sleep" ELSE "idle"]
    /\ wakeAt = 0
    /\ solo = [c \in Callers |-> TRUE]
    /\ lastGet = NoGet
    /\ fetched = [incompleteSolo |-> FALSE, lastComplete |-> NoFetch]
    /\ cycles = [prev |-> EmptyDict, startBaseline |-> EmptyDict]
    /\ call = NoCall
    /\ origami_cache = NoOrigamiCache
    /\ local_prices = NoLocals
    /\ session = "None"
    /\ user_alerts = EmptyDict
    /\ active_connections = <<>>
    /\ broadcast = NoBroadcast

CallCheckSignificantChanges(current_prices, threshold) ==
    LET r == check_significant_changes(current_prices, threshold,
                                       previous_prices, now)
    IN /\ call.op = "none"
       /\ call' = [op |-> "sig", prices |-> current_prices,
                   threshold |-> threshold, baseline |-> previous_prices,
                   startBaseline |-> previous_prices,
                   sig |-> r, arb |-> ArbNone, raised |-> r.raised # "none"]
       /\ UNCHANGED <<user_alerts, active_connections, broadcast,
                      local_prices, session, origami_cache,
                      now, cache, previous_prices, history, arbitrage_history,
                      config, pc, wakeAt, solo, lastGet, fetched, cycles>>

CallCheckArbitrageOpportunity(prices, threshold) ==
    LET r == check_arbitrage_opportunity(prices, threshold, now)
    IN /\ call.op = "none"
       /\ call' = [op |-> "arb", prices |-> prices,
                   threshold |-> threshold, baseline |-> previous_prices,
                   startBaseline |-> previous_prices,
                   sig |-> NoSig, arb |-> r, raised |-> r.raised # "none"]
       /\ UNCHANGED <<user_alerts, active_connections, broadcast,
                      local_prices, session, origami_cache,
                      now, cache, previous_prices, history, arbitrage_history,
                      config, pc, wakeAt, solo, lastGet, fetched, cycles>>

NextFn ==
    \/ \E current_prices \in FnSnapshots, threshold \in FnThresholds :
          CallCheckSignificantChanges(current_prices, threshold)
    \/ \E prices \in FnSnapshots, threshold \in FnThresholds :
          CallCheckArbitrageOpportunity(prices, threshold)

SpecFn == InitFn /\ [][NextFn]_vars

(***************************************************************************)
(* CEX source adapters: get_origami_price of miniapp/backend/index.py      *)
(* (with the rate-limit cache _origami_cache) and                          *)
(* PriceTracker.get_origami_price (without it).  One upstream request      *)
(* ends in one of Responses:                                               *)
(*   "200"        HTTP 200 with a body that parses                         *)
(*   "malformed"  HTTP 200 whose body json() or float() rejects            *)
(*   "429", "5xx", "4xx"   the status classes the code distinguishes       *)
(*   "timeout"    asyncio.TimeoutError                                     *)
(* A request takes no time in the model; asyncio.sleep(d) takes d seconds. *)
(***************************************************************************)
MAX_RETRIES == 3
MINIAPP_CACHE_TTL == 30
RETRY_PAUSE == 1
Responses == {"200", "malformed", "429", "5xx", "4xx", "timeout"}
UpstreamPrices == {250}

\* The record built from a parsed response (index.py lines 270-280).
MiniappRecord(last_price, t) ==
    [source |-> "weex_cex", pair |-> "HOLDER/USDT",
     price |-> Num(last_price), price_usd |-> Num(last_price),
     high_24h |-> last_price, low_24h |-> last_price,
     change_24h |-> <<0, 1>>, timestamp |-> t]

\* index.py lines 250-254: the cached record is served.
\* Variant: a record whose age equals the TTL is still served.
MiniappCacheFresh_AtTTL(c, t) ==
    /\ c.data # NoRecord
    /\ t - c.timestamp <= MINIAPP_CACHE_TTL

MiniappCacheFresh(c, t) ==
    /\ c.data # NoRecord
    /\ t - c.timestamp < MINIAPP_CACHE_TTL

\* index.py lines 317-323: what the call returns once the loop is left
\* without a record (NoRecord stands for None).
\* Variant: a record older than the TTL is not returned.
MiniappAfterRetries_FreshOnly(c, t) ==
    IF c.data # NoRecord /\ t - c.timestamp < MINIAPP_CACHE_TTL
    THEN c.data ELSE NoRecord

MiniappAfterRetries(c, t) ==
    IF c.data # NoRecord THEN c.data ELSE NoRecord

\* index.py lines 283-284: the cache after an attempt that produced record.
\* Variant: an attempt that produced no record clears the cache.
MiniappStore_ClearOnFailure(c, produced, record, t) ==
    IF produced THEN [data |-> record, timestamp |-> t] ELSE NoOrigamiCache

MiniappStore(c, produced, record, t) ==
    IF produced THEN [data |-> record, timestamp |-> t] ELSE c

\* One iteration of the loop of index.py lines 260-315 for one response:
\* "return" a record, "continue" after sleeping delay, or leave the loop
\* ("break", or the last iteration fell through).
\* Variant: a 4xx response is retried like a timeout.
MiniappStep_RetryClientError(attempt, response) ==
    CASE response = "200" -> [kind |-> "return", delay |-> 0]
      [] response \in {"429", "5xx"} ->
            IF attempt < MAX_RETRIES - 1
            THEN [kind |-> "continue", delay |-> 2 ^ attempt]
            ELSE [kind |-> "break", delay |-> 0]
      [] OTHER ->
            IF attempt < MAX_RETRIES - 1
            THEN [kind |-> "continue", delay |-> RETRY_PAUSE]
            ELSE [kind |-> "break", delay |-> 0]

MiniappStep(attempt, response) ==
    CASE response = "200" -> [kind |-> "return", delay |-> 0]
      [] response \in {"429", "5xx"} ->
            IF attempt < MAX_RETRIES - 1
            THEN [kind |-> "continue", delay |-> 2 ^ attempt]
            ELSE [kind |-> "break", delay |-> 0]
      [] response = "4xx" -> [kind |-> "break", delay |-> 0]
      [] OTHER ->
            IF attempt < MAX_RETRIES - 1
            THEN [kind |-> "continue", delay |-> RETRY_PAUSE]
            ELSE [kind |-> "break", delay |-> 0]

\* The loop of index.py lines 260-323 from iteration attempt on.  The result
\* holds the value returned, the cache afterwards, the responses consumed
\* (one per request issued), the delays slept and the time of return;
\* answered is FALSE when responses holds no answer for a request issued.
RECURSIVE MiniappLoop(_, _, _, _, _, _)
MiniappLoop(attempt, responses, price, c, t, delays) ==
    IF attempt >= MAX_RETRIES
    THEN [result |-> MiniappAfterRetries(c, t), cache |-> c,
          responses |-> SubSeq(responses, 1, attempt), delays |-> delays,
          end |-> t, answered |-> TRUE]
    ELSE IF attempt >= Len(responses)
    THEN [result |-> NoRecord, cache |-> c, responses |-> responses,
          delays |-> delays, end |-> t, answered |-> FALSE]
    ELSE LET s == MiniappStep(attempt, responses[attempt + 1])
             record == MiniappRecord(price, t)
             c1 == MiniappStore(c, s.kind = "return", record, t)
         IN CASE s.kind = "return" ->
                   [result |-> record, cache |-> c1,
                    responses |-> SubSeq(responses, 1, attempt + 1),
                    delays |-> delays, end |-> t, answered |-> TRUE]
              [] s.kind = "continue" ->
                   MiniappLoop(attempt + 1, responses, price, c1,
                               t + s.delay, Append(delays, s.delay))
              [] OTHER ->
                   [result |-> MiniappAfterRetries(c1, t), cache |-> c1,
                    responses |-> SubSeq(responses, 1, attempt + 1),
                    delays |-> delays, end |-> t, answered |-> TRUE]

\* get_origami_price of index.py.
miniapp_get_origami_price(c, responses, price, t) ==
    IF MiniappCacheFresh(c, t)
    THEN [result |-> c.data, cache |-> c, responses |-> <<>>,
          delays |-> <<>>, end |-> t, answered |-> TRUE]
    ELSE MiniappLoop(0, responses, price, c, t, <<>>)

\* The record PriceTracker.get_origami_price builds (lines 254-266).
TrackerRecord(last_price, t) == MkRecord("cex", Num(last_price), Num(last_price), t)

\* One iteration of the loop of price_tracker.py lines 242-298: "return" a
\* record, "continue" after sleeping delay, or "fail" (return None).
\* Variant: the wait after a 429 does not grow.
TrackerStep_ConstantBackoff(attempt, response) ==
    CASE response = "200" -> [kind |-> "return", delay |-> 0]
      [] response = "429" ->
            IF attempt < MAX_RETRIES - 1
            THEN [kind |-> "continue", delay |-> 2]
            ELSE [kind |-> "fail", delay |-> 0]
      [] response \in {"5xx", "4xx"} -> [kind |-> "fail", delay |-> 0]
      [] OTHER ->
            IF attempt < MAX_RETRIES - 1
            THEN [kind |-> "continue", delay |-> RETRY_PAUSE]
            ELSE [kind |-> "fail", delay |-> 0]

TrackerStep(attempt, response) ==
    CASE response = "200" -> [kind |-> "return", delay |-> 0]
      [] response = "429" ->
            IF attempt < MAX_RETRIES - 1
            THEN [kind |-> "continue", delay |-> (2 ^ attempt) * 2]
            ELSE [kind |-> "fail", delay |-> 0]
      [] response \in {"5xx", "4xx"} -> [kind |-> "fail", delay |-> 0]
      [] OTHER ->
            IF attempt < MAX_RETRIES - 1
            THEN [kind |-> "continue", delay |-> RETRY_PAUSE]
            ELSE [kind |-> "fail", delay |-> 0]

RECURSIVE TrackerLoop(_, _, _, _, _)
TrackerLoop(attempt, responses, price, t, delays) ==
    IF attempt >= MAX_RETRIES
    THEN [result |-> NoRecord, responses |-> SubSeq(responses, 1, attempt),
          delays |-> delays, end |-> t, answered |-> TRUE]
    ELSE IF attempt >= Len(responses)
    THEN [result |-> NoRecord, responses |-> responses,
          delays |-> delays, end |-> t, answered |-> FALSE]
    ELSE LET s == TrackerStep(attempt, responses[attempt + 1])
         IN CASE s.kind = "return" ->
                   [result |-> TrackerRecord(price, t),
                    responses |-> SubSeq(responses, 1, attempt + 1),
                    delays |-> delays, end |-> t, answered |-> TRUE]
              [] s.kind = "continue" ->
                   TrackerLoop(attempt + 1, responses, price, t + s.delay,
                               Append(delays, s.delay))
              [] OTHER ->
                   [result |-> NoRecord,
                    responses |-> SubSeq(responses, 1, attempt + 1),
                    delays |-> delays, end |-> t, answered |-> TRUE]

\* PriceTracker.get_origami_price.
\* Variant: a call whose attempts are used up without a record starts over.
tracker_get_origami_price_StartsOver(responses, price, t) ==
    LET first == TrackerLoop(0, responses, price, t, <<>>)
        rest == SubSeq(responses, Len(first.responses) + 1, Len(responses))
        second == TrackerLoop(0, rest, price, first.end, first.delays)
    IN IF first.result # NoRecord \/ ~first.answered THEN first
       ELSE [second EXCEPT !.responses = first.responses \o second.responses]

tracker_get_origami_price(responses, price, t) ==
    TrackerLoop(0, responses, price, t, <<>>)

\* The answers the upstream gives to the requests of one call, one per
\* request the call issues.
ResponseSeqs == UNION {[1..n -> Responses] : n \in 0..MAX_RETRIES}
AdapterTickSteps == {30}

\* The number of adapter calls made so far.
AdapterCalls == IF call.op \in {"miniapp", "tracker"} THEN call.n ELSE 0

\* A request handler of the mini-app backend calls get_origami_price.
MiniappGetOrigamiPrice(responses, price) ==
    \E r \in {miniapp_get_origami_price(origami_cache, responses, price, now)} :
       /\ AdapterCalls < MaxAdapterCalls
       /\ r.answered /\ r.responses = responses
       /\ r.end <= MaxTime
       /\ origami_cache' = r.cache
       /\ now' = r.end
       /\ call' = [op |-> "miniapp", n |-> AdapterCalls + 1, at |-> now,
                   before |-> origami_cache, responses |-> r.responses,
                   delays |-> r.delays, result |-> r.result]
       /\ UNCHANGED <<user_alerts, active_connections, broadcast,
                      local_prices, session, cache, previous_prices, history,
                      arbitrage_history,
                      config, pc, wakeAt, solo, lastGet, fetched, cycles>>

\* get_all_prices awaits PriceTracker.get_origami_price.
TrackerGetOrigamiPrice(responses, price) ==
    \E r \in {tracker_get_origami_price(responses, price, now)} :
       /\ AdapterCalls < MaxAdapterCalls
       /\ r.answered /\ r.responses = responses
       /\ r.end <= MaxTime
       /\ now' = r.end
       /\ call' = [op |-> "tracker", n |-> AdapterCalls + 1, at |-> now,
                   before |-> NoOrigamiCache, responses |-> r.responses,
                   delays |-> r.delays, result |-> r.result]
       /\ UNCHANGED <<user_alerts, active_connections, broadcast,
                      local_prices, session, origami_cache,
                      cache, previous_prices, history,
                      arbitrage_history, config, pc, wakeAt, solo, lastGet,
                      fetched, cycles>>

NextAdapters ==
    \/ \E responses \in ResponseSeqs, price \in UpstreamPrices :
          MiniappGetOrigamiPrice(responses, price)
    \/ \E responses \in ResponseSeqs, price \in UpstreamPrices :
          TrackerGetOrigamiPrice(responses, price)
    \/ \E d \in AdapterTickSteps : Tick(d)

\* The adapters read neither the configuration nor price_history.
InitAdapters ==
    /\ InitCalls
    /\ history = <<>>

SpecAdapters == InitAdapters /\ [][NextAdapters]_vars

(***************************************************************************)
(* get_all_prices as a function of what asyncio.gather hands back and of   *)
(* the price_history rows enrich_with_db_stats finds: one call on a fresh  *)
(* tracker, for every outcome of the three adapters and every history.     *)
(***************************************************************************)
\* An adapter that raised: gather(return_exceptions=True) hands back the
\* exception object (NoRecord stands for a returned None).
RaisedException == [source |-> "Exception"]

\* What asyncio.gather returns (lines 321-326): per adapter a record, None
\* or an exception.
GatherOutcomes(t) ==
    {f \in [SourceKeys -> UNION {AdapterOutputs(k, t) : k \in SourceKeys}
                            \cup {NoRecord, RaisedException}] :
        \A k \in SourceKeys :
            f[k] \in AdapterOutputs(k, t) \cup {NoRecord, RaisedException}}

\* Lines 328-340: a result enters the snapshot when it is truthy and not an
\* exception.
\* Variant: one failed adapter empties the snapshot.
MergeResults_AllOrNothing(outcomes) ==
    [k \in {x \in SourceKeys :
              \A y \in SourceKeys :
                  outcomes[y] # NoRecord /\ outcomes[y] # RaisedException} |->
        outcomes[k]]

MergeResults(outcomes) ==
    [k \in {x \in SourceKeys :
              outcomes[x] # NoRecord /\ outcomes[x] # RaisedException} |->
        outcomes[k]]

\* price_history rows the store can hold when the call is made: per slot
\* (a time before the call, a source, the prices the row may carry) one row
\* or none.  The first slot is older than 24 hours.
HistorySlots ==
    <<[timestamp |-> -90000, source |-> "weex_cex", prices |-> {80}],
      [timestamp |-> -7200, source |-> "weex_cex", prices |-> {0, 90, 120}],
      [timestamp |-> -3600, source |-> "weex_cex", prices |-> {95, 110}],
      [timestamp |-> -60, source |-> "weex_cex", prices |-> {100}]>>

RECURSIVE HistoriesFrom(_)
HistoriesFrom(i) ==
    IF i > Len(HistorySlots) THEN {<<>>}
    ELSE LET rest == HistoriesFrom(i + 1)
             slot == HistorySlots[i]
         IN rest \cup
            {<<[source |-> slot.source, price |-> Num(p),
                timestamp |-> slot.timestamp]>> \o h :
               p \in slot.prices, h \in rest}

AggHistories == HistoriesFrom(1)
AggBaselines == {EmptyDict, [k \in {"cex"} |-> Num(100)]}

InitAgg ==
    /\ now = 0
    /\ cache = EmptyDict
    /\ previous_prices \in AggBaselines
    /\ history \in AggHistories
    /\ arbitrage_history = <<>>
    /\ config = [ALERT_THRESHOLD |-> DEFAULT_ALERT_THRESHOLD,
                 CHECK_INTERVAL |-> DEFAULT_CHECK_INTERVAL]
    /\ pc = [c \in Callers |-> IF c = "loop" THEN "sleep" ELSE "idle"]
    /\ wakeAt = 0
    /\ solo = [c \in Callers |-> TRUE]
    /\ lastGet = NoGet
    /\ fetched = [incompleteSolo |-> FALSE, lastComplete |-> NoFetch]
    /\ cycles = [prev |-> EmptyDict, startBaseline |-> EmptyDict]
    /\ call = NoCall
    /\ origami_cache = NoOrigamiCache
    /\ local_prices = NoLocals
    /\ session = "None"
    /\ user_alerts = EmptyDict
    /\ active_connections = <<>>
    /\ broadcast = NoBroadcast

\* One get_all_prices call that misses the cache (lines 307-355).
CallGetAllPrices(outcomes, dbOk) ==
    LET r == CacheGet(cache, "all_prices", CACHE_TTL, now)
        g == FetchAllPrices(r.cache, previous_prices, history,
                            MergeResults(outcomes), dbOk, now)
    IN /\ call.op = "none"
       /\ ~r.hit
       /\ cache' = g.cache
       /\ previous_prices' = g.previous_prices
       /\ call' = [op |-> "get_all_prices", outcomes |-> outcomes,
                   dbOk |-> dbOk, prices |-> g.prices]
       /\ UNCHANGED <<user_alerts, active_connections, broadcast,
                      local_prices, session, origami_cache,
                      now, history, arbitrage_history, config,
                      pc, wakeAt, solo, lastGet, fetched, cycles>>

\* enrich_with_db_stats applied once more to the snapshot get_all_prices
\* returned (lines 357-398).  The records are updated in place, so a cached
\* snapshot, being the same dict, changes with them.
CallEnrichWithDbStats(dbOk) ==
    LET prices == enrich_with_db_stats(call.prices, history, now, dbOk) IN
    /\ call.op = "get_all_prices"
    /\ cache' = IF "all_prices" \in DOMAIN cache
                THEN [cache EXCEPT !["all_prices"].value = prices]
                ELSE cache
    /\ call' = [op |-> "enrich_with_db_stats", outcomes |-> call.outcomes,
                firstDbOk |-> call.dbOk, before |-> call.prices,
                dbOk |-> dbOk, prices |-> prices]
    /\ UNCHANGED <<user_alerts, active_connections, broadcast,
                   local_prices, session, origami_cache,
                   now, previous_prices, history,
                   arbitrage_history, config, pc, wakeAt, solo, lastGet,
                   fetched, cycles>>

NextAgg ==
    \/ \E outcomes \in GatherOutcomes(now), dbOk \in BOOLEAN :
          CallGetAllPrices(outcomes, dbOk)
    \/ \E dbOk \in BOOLEAN : CallEnrichWithDbStats(dbOk)

SpecAgg == InitAgg /\ [][NextAgg]_vars

(***************************************************************************)
(* The historical store and the operations that reach it: the five         *)
(* operations of the aggregator, the save_price calls of the polling loop  *)
(* (bot/main.py lines 91-96) and the retention sweep cleanup_old_data.     *)
(***************************************************************************)
RETENTION_SECONDS == 2592000

\* Database.__init__ runs init_database: CREATE TABLE IF NOT EXISTS, which
\* keeps the rows of a table that exists.
\* Variant: the tables are dropped and created again.
init_database_Recreate(h) == <<>>

init_database(h) == h

\* Database.cleanup_old_data(days=30): deletes the rows created more than 30
\* days ago (a row is created when its record is fetched); an error is
\* caught and nothing is deleted.
cleanup_old_data(h, t, ok) ==
    IF ~ok THEN h
    ELSE SelectSeq(h, LAMBDA r : r.timestamp >= t - RETENTION_SECONDS)

\* get_all_prices as a whole (lines 302-355): the cached snapshot on a hit,
\* otherwise the fan-out, the merge and the enrichment, whose Database()
\* is the only statement of the aggregator that touches the store.
GetAllPrices(c, prev, h, outcomes, dbOk, t) ==
    LET r == CacheGet(c, "all_prices", CACHE_TTL, t) IN
    IF r.hit
    THEN [prices |-> r.value, previous_prices |-> prev, cache |-> r.cache,
          history |-> h, hit |-> TRUE]
    ELSE LET g == FetchAllPrices(r.cache, prev, h, MergeResults(outcomes),
                                 dbOk, t)
         IN [prices |-> g.prices, previous_prices |-> g.previous_prices,
             cache |-> g.cache,
             history |-> IF dbOk THEN init_database(h) ELSE h,
             hit |-> FALSE]

\* Lines 411-441: the statistics of one source.
SourceStats(rec) ==
    [high |-> rec.high_24h, low |-> rec.low_24h, change |-> rec.change_24h,
     current |-> rec.price]

\* Lines 443-456: the arbitrage entry of the statistics, None when a leg is
\* missing or zero.
ArbitrageStats(prices) ==
    IF "dex_usdt" \in DOMAIN prices /\ "cex" \in DOMAIN prices
    THEN LET dex_usdt_price == prices["dex_usdt"].price
             cex_price == prices["cex"].price_usd
         IN IF Truthy(dex_usdt_price) /\ Truthy(cex_price)
            THEN [dex_price |-> dex_usdt_price, cex_price |-> cex_price,
                  difference_percent |->
                      <<(dex_usdt_price.v - cex_price.v) * 100, cex_price.v>>,
                  opportunity |->
                      Abs(dex_usdt_price.v - cex_price.v) * 100
                          > 2 * cex_price.v]
            ELSE NoRecord
    ELSE NoRecord

\* get_24h_stats (lines 400-458) over the snapshot get_all_prices returned.
get_24h_stats(prices) ==
    [k \in SourceKeys \cup {"arbitrage"} |->
        IF k = "arbitrage" THEN ArbitrageStats(prices)
        ELSE IF k \in DOMAIN prices THEN SourceStats(prices[k])
        ELSE NoRecord]

\* What price_history can hold before the operations: a row older than the
\* retention, and rows of the last 24 hours.
StoreHistories ==
    {<<>>,
     <<[source |-> "weex_cex", price |-> Num(90), timestamp |-> -2700000]>>,
     <<[source |-> "weex_cex", price |-> Num(90), timestamp |-> -2700000],
       [source |-> "weex_cex", price |-> Num(95), timestamp |-> -3600]>>,
     <<[source |-> "weex_cex", price |-> Num(95), timestamp |-> -3600],
       [source |-> "weex_cex", price |-> Num(100), timestamp |-> -60]>>}

\* The outcomes of the fan-out in these operations: every adapter answers
\* with a record or with None, the two DEX adapters alike.
StoreOutcomes(t) ==
    {f \in GatherOutcomes(t) :
        /\ \A k \in SourceKeys : f[k] # RaisedException
        /\ f["cex"] # NoRecord => f["cex"].price = Num(105)
        /\ f["dex_ton"] = NoRecord <=> f["dex_usdt"] = NoRecord}

InitStore ==
    /\ now = 0
    /\ cache = EmptyDict
    /\ previous_prices = EmptyDict
    /\ history \in StoreHistories
    /\ arbitrage_history = <<>>
    /\ config = [ALERT_THRESHOLD |-> DEFAULT_ALERT_THRESHOLD,
                 CHECK_INTERVAL |-> DEFAULT_CHECK_INTERVAL]
    /\ pc = [c \in Callers |-> IF c = "loop" THEN "sleep" ELSE "idle"]
    /\ wakeAt = 0
    /\ solo = [c \in Callers |-> TRUE]
    /\ lastGet = NoGet
    /\ fetched = [incompleteSolo |-> FALSE, lastComplete |-> NoFetch]
    /\ cycles = [prev |-> EmptyDict, startBaseline |-> EmptyDict]
    /\ call = NoCall
    /\ origami_cache = NoOrigamiCache
    /\ local_prices = NoLocals
    /\ session = "None"
    /\ user_alerts = EmptyDict
    /\ active_connections = <<>>
    /\ broadcast = NoBroadcast

StoreCall(op, prices, dbOk, result) ==
    [op |-> op, prices |-> prices, dbOk |-> dbOk, result |-> result]

StoreGetAllPrices(outcomes, dbOk) ==
    LET g == GetAllPrices(cache, previous_prices, history, outcomes, dbOk, now)
    IN /\ cache' = g.cache
       /\ previous_prices' = g.previous_prices
       /\ history' = g.history
       /\ call' = StoreCall("get_all_prices", g.prices, dbOk, g.hit)
       /\ UNCHANGED <<user_alerts, active_connections, broadcast,
                      local_prices, session, origami_cache,
                      now, arbitrage_history, config, pc,
                      wakeAt, solo, lastGet, fetched, cycles>>

StoreGet24hStats(outcomes, dbOk) ==
    LET g == GetAllPrices(cache, previous_prices, history, outcomes, dbOk, now)
    IN /\ cache' = g.cache
       /\ previous_prices' = g.previous_prices
       /\ history' = g.history
       /\ call' = StoreCall("get_24h_stats", g.prices, dbOk,
                            get_24h_stats(g.prices))
       /\ UNCHANGED <<user_alerts, active_connections, broadcast,
                      local_prices, session, origami_cache,
                      now, arbitrage_history, config, pc,
                      wakeAt, solo, lastGet, fetched, cycles>>

\* The operations below work on the snapshot of the latest call.
StoreEnrichWithDbStats(dbOk) ==
    LET prices == enrich_with_db_stats(call.prices, history, now, dbOk) IN
    /\ call.op # "none"
    /\ cache' = IF "all_prices" \in DOMAIN cache
                   /\ cache["all_prices"].value = call.prices
                THEN [cache EXCEPT !["all_prices"].value = prices]
                ELSE cache
    /\ history' = IF dbOk THEN init_database(history) ELSE history
    /\ call' = StoreCall("enrich_with_db_stats", prices, dbOk, TRUE)
    /\ UNCHANGED <<user_alerts, active_connections, broadcast,
                   local_prices, session, origami_cache,
                   now, previous_prices, arbitrage_history,
                   config, pc, wakeAt, solo, lastGet, fetched, cycles>>

StoreCheckSignificantChanges ==
    /\ call.op # "none"
    /\ call' = StoreCall("check_significant_changes", call.prices, TRUE,
                         check_significant_changes(call.prices,
                             config.ALERT_THRESHOLD, previous_prices, now))
    /\ UNCHANGED <<user_alerts, active_connections, broadcast,
                   local_prices, session, origami_cache,
                   now, cache, previous_prices, history,
                   arbitrage_history, config, pc, wakeAt, solo, lastGet,
                   fetched, cycles>>

StoreCheckArbitrageOpportunity ==
    /\ call.op # "none"
    /\ call' = StoreCall("check_arbitrage_opportunity", call.prices, TRUE,
                         check_arbitrage_opportunity(call.prices,
                             LOOP_ARB_THRESHOLD, now))
    /\ UNCHANGED <<user_alerts, active_connections, broadcast,
                   local_prices, session, origami_cache,
                   now, cache, previous_prices, history,
                   arbitrage_history, config, pc, wakeAt, solo, lastGet,
                   fetched, cycles>>

\* bot/main.py lines 91-96: the loop saves the records of its snapshot.
StoreSavePrices(ok) ==
    /\ call.op \in {"get_all_prices", "get_24h_stats"}
    /\ history' = SavePrices(history, call.prices, ok)
    /\ call' = StoreCall("save_price", call.prices, ok, TRUE)
    /\ UNCHANGED <<user_alerts, active_connections, broadcast,
                   local_prices, session, origami_cache,
                   now, cache, previous_prices,
                   arbitrage_history, config, pc, wakeAt, solo, lastGet,
                   fetched, cycles>>

\* bot/main.py lines 165-181: the daily sweep.
StoreCleanupOldData(ok) ==
    /\ history' = cleanup_old_data(history, now, ok)
    /\ call' = StoreCall("cleanup_old_data", EmptyDict, ok, TRUE)
    /\ UNCHANGED <<user_alerts, active_connections, broadcast,
                   local_prices, session, origami_cache,
                   now, cache, previous_prices,
                   arbitrage_history, config, pc, wakeAt, solo, lastGet,
                   fetched, cycles>>

NextStore ==
    \/ \E outcomes \in StoreOutcomes(now), dbOk \in BOOLEAN :
          StoreGetAllPrices(outcomes, dbOk)
    \/ \E outcomes \in StoreOutcomes(now), dbOk \in BOOLEAN :
          StoreGet24hStats(outcomes, dbOk)
    \/ \E dbOk \in BOOLEAN : StoreEnrichWithDbStats(dbOk)
    \/ StoreCheckSignificantChanges
    \/ StoreCheckArbitrageOpportunity
    \/ \E ok \in BOOLEAN : StoreSavePrices(ok)
    \/ \E ok \in BOOLEAN : StoreCleanupOldData(ok)

SpecStore == InitStore /\ [][NextStore]_vars

(***************************************************************************)
(* Overlapping get_all_prices calls on the shared tracker, one await at a  *)
(* time: the cache check, the gather of the adapters followed by the merge *)
(* into the call's own dict, and the enrichment followed by the caching    *)
(* and the return.                                                         *)
(***************************************************************************)
SnapTickSteps == {30}

\* Lines 307-311: a hit returns the cached dict.
SnapStart(c) ==
    LET r == CacheGet(cache, "all_prices", CACHE_TTL, now) IN
    /\ pc[c] = "idle"
    /\ cache' = r.cache
    /\ pc' = [pc EXCEPT ![c] = IF r.hit THEN "idle" ELSE "gather"]
    /\ call' = IF r.hit
               THEN [op |-> "snapshot", caller |-> c, hit |-> TRUE,
                     prices |-> r.value, at |-> now]
               ELSE call
    /\ UNCHANGED <<user_alerts, active_connections, broadcast,
                   local_prices, session, origami_cache, now, previous_prices,
                   history, arbitrage_history, config, wakeAt, solo, lastGet,
                   fetched, cycles>>

\* Lines 321-340: gather has returned, the results are merged into the
\* call's dict and the baseline is overwritten.
SnapMerge(c, outcomes) ==
    LET prices == MergeResults(outcomes) IN
    /\ pc[c] = "gather"
    /\ local_prices' = [local_prices EXCEPT ![c] = prices]
    /\ previous_prices' = MergeBaseline(previous_prices, prices)
    /\ pc' = [pc EXCEPT ![c] = "enrich"]
    /\ UNCHANGED <<user_alerts, active_connections, broadcast,
                   session, origami_cache, now, cache, history,
                   arbitrage_history, config, wakeAt, solo, lastGet, fetched,
                   cycles, call>>

\* Lines 342-355: the dict is enriched, cached when complete, and returned.
SnapReturn(c, dbOk) ==
    LET g == FetchAllPrices(cache, previous_prices, history, local_prices[c],
                            dbOk, now)
    IN /\ pc[c] = "enrich"
       /\ cache' = g.cache
       /\ local_prices' = [local_prices EXCEPT ![c] = EmptyDict]
       /\ pc' = [pc EXCEPT ![c] = "idle"]
       /\ fetched' = [fetched EXCEPT !.lastComplete =
                         IF IsComplete(g.prices)
                         THEN [valid |-> TRUE, prices |-> g.prices, at |-> now]
                         ELSE @]
       /\ call' = [op |-> "snapshot", caller |-> c, hit |-> FALSE,
                   prices |-> g.prices, at |-> now]
       /\ UNCHANGED <<user_alerts, active_connections, broadcast,
                      session, origami_cache, now, previous_prices, history,
                      arbitrage_history, config, wakeAt, solo, lastGet,
                      cycles>>

NextSnap ==
    \/ \E c \in Consumers : SnapStart(c)
    \/ \E c \in Consumers, outcomes \in StoreOutcomes(now) :
          SnapMerge(c, outcomes)
    \/ \E c \in Consumers, dbOk \in BOOLEAN : SnapReturn(c, dbOk)
    \/ \E d \in SnapTickSteps : Tick(d)

SpecSnap == InitCalls /\ [][NextSnap]_vars

(***************************************************************************)
(* Consumer-facing queries: the /price, /stats and /arbitrage commands     *)
(* (bot/handlers/commands.py), /portfolio (bot/handlers/portfolio.py) and  *)
(* the monitoring task, and the /api/stats and /api/arbitrage endpoints    *)
(* (miniapp/backend/app/main.py).  A reply is named by what it tells the   *)
(* user.                                                                   *)
(***************************************************************************)
QUERY_ARB_THRESHOLD == 1

\* commands.py lines 125-127.
price_command(prices) ==
    IF prices = EmptyDict THEN "unavailable" ELSE "prices"

\* commands.py lines 209-211.
stats_command(stats) ==
    IF DOMAIN stats = {}
       \/ (stats["dex_ton"] = NoRecord /\ stats["dex_usdt"] = NoRecord
           /\ stats["cex"] = NoRecord)
    THEN "unavailable" ELSE "stats"

\* commands.py lines 312-330: without an event the reply says that the
\* difference between DEX and CEX is below 1%.
arbitrage_command(arb) ==
    IF arb.raised # "none" THEN "raise"
    ELSE IF ~arb.present THEN "no_arbitrage_below_1_percent"
    ELSE "opportunity"

\* app/main.py lines 174-191: the 503 of an empty stats dict is raised inside
\* the try and leaves as a 500; otherwise success with the stats as they are.
get_stats(stats) ==
    IF DOMAIN stats = {} THEN "error_500" ELSE "success"

\* app/main.py lines 216-232: success, with has_opportunity false when there
\* is no event.
get_arbitrage(arb) ==
    IF arb.raised # "none" THEN "error_500"
    ELSE IF ~arb.present THEN "success_no_opportunity"
    ELSE "success_opportunity"

\* portfolio.py lines 93-95: the current price is that of the CEX record, or 0.
show_portfolio(prices) ==
    IF "cex" \in DOMAIN prices THEN "portfolio" ELSE "portfolio_at_zero"

QueryCall(op, g, reply, sharedFresh) ==
    [op |-> op, prices |-> g.prices, reply |-> reply, upstream |-> ~g.hit,
     sharedFresh |-> sharedFresh]

\* The shared tracker (shared/tracker_instance.py) holds a snapshot young
\* enough to be served.
SharedFresh == CacheGet(cache, "all_prices", CACHE_TTL, now).hit

\* A caller of the shared tracker: the monitoring task (bot/main.py line 88)
\* or show_portfolio (portfolio.py lines 73-93).
QueryShared(op, outcomes, dbOk) ==
    LET g == GetAllPrices(cache, previous_prices, history, outcomes, dbOk, now)
    IN /\ cache' = g.cache
       /\ previous_prices' = g.previous_prices
       /\ call' = QueryCall(op, g,
                            IF op = "show_portfolio"
                            THEN show_portfolio(g.prices) ELSE "none",
                            SharedFresh)
       /\ UNCHANGED <<user_alerts, active_connections, broadcast,
                      local_prices, session, origami_cache, now, history,
                      arbitrage_history, config, pc, wakeAt, solo, lastGet,
                      fetched, cycles>>

\* A command handler: 'tracker = PriceTracker()' (commands.py lines 121, 205,
\* 307) is a new object with an empty cache and an empty baseline, and the
\* endpoints use the PriceTracker() of their own process (app/main.py
\* line 43).
QueryOwnTracker(op, outcomes, dbOk) ==
    LET g == GetAllPrices(EmptyDict, EmptyDict, history, outcomes, dbOk, now)
        stats == get_24h_stats(g.prices)
        arb == check_arbitrage_opportunity(g.prices, QUERY_ARB_THRESHOLD, now)
    IN /\ call' = QueryCall(op, g,
                    CASE op = "price_command" -> price_command(g.prices)
                      [] op = "stats_command" -> stats_command(stats)
                      [] op = "arbitrage_command" -> arbitrage_command(arb)
                      [] op = "get_stats" -> get_stats(stats)
                      [] op = "get_arbitrage" -> get_arbitrage(arb),
                    SharedFresh)
       /\ UNCHANGED <<user_alerts, active_connections, broadcast,
                      local_prices, session, origami_cache, now, cache,
                      previous_prices, history, arbitrage_history, config, pc,
                      wakeAt, solo, lastGet, fetched, cycles>>

SharedOps == {"price_monitoring_task", "show_portfolio"}
CommandOps == {"price_command", "stats_command", "arbitrage_command"}
EndpointOps == {"get_stats", "get_arbitrage"}

NextQueries ==
    \/ \E op \in SharedOps, outcomes \in StoreOutcomes(now),
          dbOk \in BOOLEAN : QueryShared(op, outcomes, dbOk)
    \/ \E op \in CommandOps \cup EndpointOps,
          outcomes \in StoreOutcomes(now), dbOk \in BOOLEAN :
          QueryOwnTracker(op, outcomes, dbOk)
    \/ \E d \in SnapTickSteps : Tick(d)

SpecQueries == InitCalls /\ [][NextQueries]_vars

(***************************************************************************)
(* Per-user price alerts: one iteration of the polling loop, from the      *)
(* fan-out of get_all_prices to the alerts sent (bot/main.py lines 88-124),*)
(* for a user who ran '/alerts set T' (bot/handlers/alerts.py lines 50-62).*)
(* previous_prices holds what the previous iteration left.                 *)
(***************************************************************************)
UserThresholds == {2, 5}
AlertPrices == {100, 103, 105, 110}

\* What the three adapters return in the iteration.
AlertResults(t) ==
    {[k \in D |-> MkRecord(k, Num(IF k = "cex" THEN p ELSE 100),
                           Num(IF k = "cex" THEN p ELSE 100), t)] :
        D \in {{"cex"}, {"dex_usdt", "cex"}, SourceKeys}, p \in AlertPrices}

\* user_alerts rows of type 'price_change': '/alerts set T' stores T for the
\* chat.
UserAlerts(T) == {[chat_id |-> 1, threshold |-> T]}

\* bot/main.py lines 101-124: every change goes to every alert whose
\* threshold it reaches.
SendPriceAlerts(changes, alerts) ==
    UNION {{[chat_id |-> a.chat_id, source |-> changes[i].source] :
              i \in {j \in 1..Len(changes) :
                       Abs(changes[j].percent[1])
                         >= a.threshold * changes[j].percent[2]}} :
           a \in alerts}

\* The baseline the previous iteration left: nothing, or its prices.
PreviousCyclePrices ==
    {EmptyDict, [k \in {"cex"} |-> Num(100)], [k \in SourceKeys |-> Num(100)]}

InitAlerts ==
    /\ now = 0
    /\ cache = EmptyDict
    /\ previous_prices \in PreviousCyclePrices
    /\ history = <<>>
    /\ arbitrage_history = <<>>
    /\ config \in [ALERT_THRESHOLD : AlertThresholds,
                   CHECK_INTERVAL : {DEFAULT_CHECK_INTERVAL}]
    /\ pc = [c \in Callers |-> IF c = "loop" THEN "sleep" ELSE "idle"]
    /\ wakeAt = 0
    /\ solo = [c \in Callers |-> TRUE]
    /\ lastGet = NoGet
    /\ fetched = [incompleteSolo |-> FALSE, lastComplete |-> NoFetch]
    /\ cycles = [prev |-> EmptyDict, startBaseline |-> EmptyDict]
    /\ call = NoCall
    /\ origami_cache = NoOrigamiCache
    /\ local_prices = NoLocals
    /\ session = "None"
    /\ user_alerts = EmptyDict
    /\ active_connections = <<>>
    /\ broadcast = NoBroadcast

AlertCycle(results, T) ==
    LET g == FetchAllPrices(cache, previous_prices, history, results, TRUE, now)
        sig == check_significant_changes(g.prices, config.ALERT_THRESHOLD,
                                         g.previous_prices, now)
    IN /\ call.op = "none"
       /\ cache' = g.cache
       /\ previous_prices' = g.previous_prices
       /\ call' = [op |-> "alerts", prev |-> previous_prices,
                   prices |-> g.prices, T |-> T, sig |-> sig,
                   sent |-> SendPriceAlerts(sig.changes, UserAlerts(T))]
       /\ UNCHANGED <<user_alerts, active_connections, broadcast,
                      local_prices, session, origami_cache, now, history,
                      arbitrage_history, config, pc, wakeAt, solo, lastGet,
                      fetched, cycles>>

NextAlerts ==
    \E results \in AlertResults(now), T \in UserThresholds :
        AlertCycle(results, T)

SpecAlerts == InitAlerts /\ [][NextAlerts]_vars

(***************************************************************************)
(* The HTTP session of the tracker: _get_session and close.                *)
(***************************************************************************)
\* PriceTracker._get_session (lines 33-37): a session is created when there
\* is none or when the one held is closed.
\* Variant: a closed session is handed out again.
get_session_ReuseClosed(s) ==
    IF s = "None"
    THEN [session |-> "open", created |-> TRUE]
    ELSE [session |-> s, created |-> FALSE]

get_session(s) ==
    IF s = "None" \/ s = "closed"
    THEN [session |-> "open", created |-> TRUE]
    ELSE [session |-> s, created |-> FALSE]

\* PriceTracker.close (lines 548-551).
close(s) ==
    IF s # "None" /\ s # "closed"
    THEN [session |-> "closed", raised |-> FALSE]
    ELSE [session |-> s, raised |-> FALSE]

\* get_all_prices on the tracker: after a cache miss every adapter asks
\* _get_session for the session before its first request (lines 45, 117,
\* 161, 237).
SessionGetAllPrices(outcomes, dbOk) ==
    LET g == GetAllPrices(cache, previous_prices, history, outcomes, dbOk, now)
        s == get_session(session)
    IN /\ cache' = g.cache
       /\ previous_prices' = g.previous_prices
       /\ session' = IF g.hit THEN session ELSE s.session
       /\ call' = [op |-> "fetch", hit |-> g.hit, before |-> session,
                   created |-> ~g.hit /\ s.created,
                   used |-> IF g.hit THEN "None" ELSE s.session,
                   raised |-> FALSE, prices |-> g.prices]
       /\ UNCHANGED <<user_alerts, active_connections, broadcast,
                      local_prices, origami_cache, now, history,
                      arbitrage_history, config, pc, wakeAt, solo, lastGet,
                      fetched, cycles>>

SessionClose ==
    LET r == close(session) IN
    /\ session' = r.session
    /\ call' = [op |-> "close", hit |-> FALSE, before |-> session,
                created |-> FALSE, used |-> "None", raised |-> r.raised,
                prices |-> EmptyDict]
    /\ UNCHANGED <<user_alerts, active_connections, broadcast,
                   local_prices, origami_cache, now, cache, previous_prices,
                   history, arbitrage_history, config, pc, wakeAt, solo,
                   lastGet, fetched, cycles>>

NextSession ==
    \/ \E outcomes \in StoreOutcomes(now), dbOk \in BOOLEAN :
          SessionGetAllPrices(outcomes, dbOk)
    \/ SessionClose
    \/ \E d \in SnapTickSteps : Tick(d)

SpecSession == InitCalls /\ [][NextSession]_vars

(***************************************************************************)
(* The DEX adapters: get_stonfi_price, _get_ton_usdt_price and             *)
(* get_stonfi_usdt_price read the reserves of a pool and derive a price.   *)
(* Reserves are in the token's smallest unit; floats are in hundredths,    *)
(* and the reserves of the model make every quotient exact.                *)
(***************************************************************************)
TON_DECIMALS == 9
HOLDER_DECIMALS == 9
USDT_DECIMALS == 6

\* reserve / (10 ** decimals), in hundredths.
Normalized(reserve, decimals) == reserve \div (10 ^ (decimals - 2))

\* a / b for two floats in hundredths, b > 0.
Quotient(a, b) == (a * 100) \div b

\* What the pools endpoint can answer: a status other than 200, an empty
\* pool_list, or a pool with its two reserves.
PoolAnswers(reserves0, reserves1) ==
    {[status |-> 404, pool_list |-> <<>>], [status |-> 200, pool_list |-> <<>>]}
    \cup {[status |-> 200,
           pool_list |-> <<[reserve0 |-> r0, reserve1 |-> r1]>>] :
            r0 \in reserves0, r1 \in reserves1}

\* _get_ton_usdt_price (lines 107-149): USDT per TON, or None.
get_ton_usdt_price(answer) ==
    IF answer.status # 200 \/ answer.pool_list = <<>> THEN NoneVal
    ELSE LET pool == answer.pool_list[1]
             usdt_normalized == Normalized(pool.reserve0, USDT_DECIMALS)
             ton_normalized == Normalized(pool.reserve1, TON_DECIMALS)
         IN IF ton_normalized > 0
            THEN Num(Quotient(usdt_normalized, ton_normalized))
            ELSE NoneVal

\* get_stonfi_price (lines 39-105): the HOLDER/TON pool.  reserve0 is TON and
\* reserve1 HOLDER, both with nine decimals, and the code divides the raw
\* reserves.  statsOk: the request for the 24h volume did not raise.
get_stonfi_price(answer, rateAnswer, statsOk, t) ==
    IF answer.status # 200 \/ answer.pool_list = <<>> THEN NoRecord
    ELSE LET pool == answer.pool_list[1]
             price_in_ton == IF pool.reserve1 > 0
                             THEN Quotient(pool.reserve0, pool.reserve1)
                             ELSE 0
             ton_usdt_price == get_ton_usdt_price(rateAnswer)
             price_in_usd == IF Truthy(ton_usdt_price)
                             THEN Num((price_in_ton * ton_usdt_price.v) \div 100)
                             ELSE NoneVal
         IN IF ~statsOk THEN NoRecord
            ELSE MkRecord("dex_ton", Num(price_in_ton), price_in_usd, t)

\* get_stonfi_usdt_price (lines 151-226): the HOLDER/USDT pool.  reserve0 is
\* USDT (six decimals) and reserve1 HOLDER (nine decimals).
get_stonfi_usdt_price(answer, statsOk, t) ==
    IF answer.status # 200 \/ answer.pool_list = <<>> THEN NoRecord
    ELSE LET pool == answer.pool_list[1]
             usdt_normalized == Normalized(pool.reserve0, USDT_DECIMALS)
             holder_normalized == Normalized(pool.reserve1, HOLDER_DECIMALS)
             price_in_usdt == IF holder_normalized > 0
                              THEN Quotient(usdt_normalized, holder_normalized)
                              ELSE 0
         IN IF ~statsOk THEN NoRecord
            ELSE MkRecord("dex_usdt", Num(price_in_usdt), Num(price_in_usdt), t)

\* The pool answers of the model: a pool can be empty on either side.
TonPoolAnswers == PoolAnswers({0, 4000000}, {0, 2000000})
UsdtPoolAnswers == PoolAnswers({0, 3000000}, {0, 2000000000})
RatePoolAnswers == PoolAnswers({0, 2000000}, {0, 1000000000})

\* One get_all_prices call on a fresh tracker, the DEX adapters computing
\* their records from the pool answers (lines 302-355).
PoolGetAllPrices(tonPool, usdtPool, ratePool, statsOk, cex) ==
    LET outcomes == [k \in SourceKeys |->
                       CASE k = "dex_ton" ->
                              get_stonfi_price(tonPool, ratePool, statsOk, now)
                         [] k = "dex_usdt" ->
                              get_stonfi_usdt_price(usdtPool, statsOk, now)
                         [] OTHER -> cex]
        g == FetchAllPrices(cache, previous_prices, history,
                            MergeResults(outcomes), TRUE, now)
    IN /\ call.op = "none"
       /\ cache' = g.cache
       /\ previous_prices' = g.previous_prices
       /\ call' = [op |-> "pool_get_all_prices", tonPool |-> tonPool,
                   usdtPool |-> usdtPool, ratePool |-> ratePool,
                   outcomes |-> outcomes, raised |-> FALSE,
                   prices |-> g.prices]
       /\ UNCHANGED <<user_alerts, active_connections, broadcast,
                      local_prices, session, origami_cache,
                      now, history, arbitrage_history, config,
                      pc, wakeAt, solo, lastGet, fetched, cycles>>

NextPools ==
    \E tonPool \in TonPoolAnswers, usdtPool \in UsdtPoolAnswers,
       ratePool \in RatePoolAnswers, statsOk \in BOOLEAN,
       cex \in AdapterOutputs("cex", now) \cup {NoRecord} :
       PoolGetAllPrices(tonPool, usdtPool, ratePool, statsOk, cex)

InitPools == InitCalls /\ history = <<>>

SpecPools == InitPools /\ [][NextPools]_vars

(***************************************************************************)
(* The two arbitrage detectors on one snapshot: get_24h_stats flags an     *)
(* opportunity in its 'arbitrage' entry, check_arbitrage_opportunity       *)
(* returns an event.                                                       *)
(***************************************************************************)
\* DEX USDT prices around a CEX price of 1.00: below, at and above 2%.
ComparePrices == {97, 98, 100, 102, 103}

\* The outcomes of the fan-out: the HOLDER/USDT pool and the CEX answer with
\* a record or with None.
CompareOutcomes(t) ==
    {[k \in SourceKeys |->
        CASE k = "dex_usdt" -> dex
          [] k = "cex" -> cex
          [] OTHER -> NoRecord] :
       dex \in {MkRecord("dex_usdt", Num(p), Num(p), t) : p \in ComparePrices}
               \cup {NoRecord},
       cex \in {MkRecord("cex", Num(100), Num(100), t), NoRecord}}

\* get_24h_stats (lines 400-458): fetches the snapshot itself.
CompareGet24hStats(outcomes) ==
    LET g == GetAllPrices(cache, previous_prices, history, outcomes, TRUE, now)
    IN /\ cache' = g.cache
       /\ previous_prices' = g.previous_prices
       /\ call' = [op |-> "get_24h_stats", prices |-> g.prices,
                   stats |-> get_24h_stats(g.prices), arb |-> ArbNone]
       /\ UNCHANGED <<user_alerts, active_connections, broadcast,
                      local_prices, session, origami_cache, now, history,
                      arbitrage_history, config, pc, wakeAt, solo, lastGet,
                      fetched, cycles>>

\* check_arbitrage_opportunity(prices, 2.0) on the snapshot the statistics
\* were computed from (lines 506-546).
CompareCheckArbitrage ==
    /\ call.op = "get_24h_stats"
    /\ call' = [op |-> "check_arbitrage_opportunity", prices |-> call.prices,
                stats |-> call.stats,
                arb |-> check_arbitrage_opportunity(call.prices,
                                                    LOOP_ARB_THRESHOLD, now)]
    /\ UNCHANGED <<user_alerts, active_connections, broadcast,
                   local_prices, session, origami_cache, now, cache,
                   previous_prices, history, arbitrage_history, config, pc,
                   wakeAt, solo, lastGet, fetched, cycles>>

NextCompare ==
    \/ \E outcomes \in CompareOutcomes(now) : CompareGet24hStats(outcomes)
    \/ CompareCheckArbitrage
    \/ \E d \in SnapTickSteps : Tick(d)

SpecCompare == InitPools /\ [][NextCompare]_vars

(***************************************************************************)
(* One call of a CEX adapter against an upstream that answers every        *)
(* request the call issues, however many those are.                        *)
(***************************************************************************)
\* The answers on offer: one more than the adapters may ask for.
OfferedResponses == [1..(MAX_RETRIES + 1) -> Responses]

\* The module-level cache of index.py when the call starts: empty, a record
\* older than the TTL, a record younger than the TTL.
RetryCaches ==
    {NoOrigamiCache,
     [data |-> MiniappRecord(240, -40), timestamp |-> -40],
     [data |-> MiniappRecord(240, -10), timestamp |-> -10]}

RetryCall(op, r) ==
    [op |-> op, requests |-> Len(r.responses), responses |-> r.responses,
     returned |-> r.answered, result |-> r.result]

\* get_origami_price of index.py (lines 245-323).
RetryMiniapp(responses, price) ==
    LET r == miniapp_get_origami_price(origami_cache, responses, price, now)
    IN /\ call.op = "none"
       /\ origami_cache' = r.cache
       /\ now' = IF r.answered THEN r.end ELSE now
       /\ call' = RetryCall("miniapp_call", r)
       /\ UNCHANGED <<user_alerts, active_connections, broadcast,
                      local_prices, session, cache, previous_prices, history,
                      arbitrage_history, config, pc, wakeAt, solo, lastGet,
                      fetched, cycles>>

\* PriceTracker.get_origami_price (lines 228-300).
RetryTracker(responses, price) ==
    LET r == tracker_get_origami_price(responses, price, now)
    IN /\ call.op = "none"
       /\ now' = IF r.answered THEN r.end ELSE now
       /\ call' = RetryCall("tracker_call", r)
       /\ UNCHANGED <<user_alerts, active_connections, broadcast,
                      local_prices, session, origami_cache, cache,
                      previous_prices, history, arbitrage_history, config,
                      pc, wakeAt, solo, lastGet, fetched, cycles>>

NextRetries ==
    \/ \E responses \in OfferedResponses, price \in UpstreamPrices :
          RetryMiniapp(responses, price)
    \/ \E responses \in OfferedResponses, price \in UpstreamPrices :
          RetryTracker(responses, price)

InitRetries ==
    /\ now = 0
    /\ cache = EmptyDict
    /\ previous_prices = EmptyDict
    /\ history = <<>>
    /\ arbitrage_history = <<>>
    /\ config = [ALERT_THRESHOLD |-> DEFAULT_ALERT_THRESHOLD,
                 CHECK_INTERVAL |-> DEFAULT_CHECK_INTERVAL]
    /\ pc = [c \in Callers |-> IF c = "loop" THEN "sleep" ELSE "idle"]
    /\ wakeAt = 0
    /\ solo = [c \in Callers |-> TRUE]
    /\ lastGet = NoGet
    /\ fetched = [incompleteSolo |-> FALSE, lastComplete |-> NoFetch]
    /\ cycles = [prev |-> EmptyDict, startBaseline |-> EmptyDict]
    /\ call = NoCall
    /\ origami_cache \in RetryCaches
    /\ local_prices = NoLocals
    /\ session = "None"
    /\ user_alerts = EmptyDict
    /\ active_connections = <<>>
    /\ broadcast = NoBroadcast

SpecRetries == InitRetries /\ [][NextRetries]_vars

(***************************************************************************)
(* SimpleCache on its own: set, and get with the caller's max_age_seconds. *)
(* stored is what the latest set of each key wrote, kept with the call     *)
(* observed.                                                               *)
(***************************************************************************)
CacheKeys == {"all_prices", "prices"}
CacheMaxAges == {10, 30, 60}
CacheValues == {[k \in {"cex"} |-> Num(p)] : p \in {100, 105}}

NeverStored == [k \in CacheKeys |-> [valid |-> FALSE, value |-> NoValue, at |-> 0]]

\* What the sets so far have stored, per key.
StoredSoFar == IF call.op \in {"cache_set", "cache_get"} THEN call.stored
               ELSE NeverStored

\* SimpleCache.set (lines 62-71).
CacheSetCall(key, value) ==
    /\ cache' = CacheSet(cache, key, value, now)
    /\ call' = [op |-> "cache_set", key |-> key, max_age |-> 0, at |-> now,
                hit |-> FALSE, value |-> value,
                stored |-> [StoredSoFar EXCEPT
                               ![key] = [valid |-> TRUE, value |-> value,
                                         at |-> now]]]
    /\ UNCHANGED <<user_alerts, active_connections, broadcast,
                   local_prices, session, origami_cache, now,
                   previous_prices, history, arbitrage_history, config, pc,
                   wakeAt, solo, lastGet, fetched, cycles>>

\* SimpleCache.get (lines 35-60).
CacheGetCall(key, max_age_seconds) ==
    LET r == CacheGet(cache, key, max_age_seconds, now) IN
    /\ cache' = r.cache
    /\ call' = [op |-> "cache_get", key |-> key,
                max_age |-> max_age_seconds, at |-> now, hit |-> r.hit,
                value |-> r.value, stored |-> StoredSoFar]
    /\ UNCHANGED <<user_alerts, active_connections, broadcast,
                   local_prices, session, origami_cache, now,
                   previous_prices, history, arbitrage_history, config, pc,
                   wakeAt, solo, lastGet, fetched, cycles>>

NextCache ==
    \/ \E key \in CacheKeys, value \in CacheValues : CacheSetCall(key, value)
    \/ \E key \in CacheKeys, max_age_seconds \in CacheMaxAges :
          CacheGetCall(key, max_age_seconds)
    \/ \E d \in SnapTickSteps : Tick(d)

SpecCache == InitPools /\ [][NextCache]_vars

(***************************************************************************)
(* The /alerts command (bot/handlers/alerts.py) over the user_alerts       *)
(* table.  A row is identified by (user_id, chat_id, alert_type); a user   *)
(* talks to the bot in one chat, so the user stands for both ids.  The     *)
(* database answers every statement.                                       *)
(***************************************************************************)
Users == {"u1", "u2"}
AlertTypes == {"price_change", "arbitrage"}
SetThresholds == {3}
ON_PRICE_THRESHOLD == 5
ON_ARBITRAGE_THRESHOLD == 2

\* Database.add_user_alert (lines 285-321): an upsert that writes the
\* threshold and is_active = TRUE.
add_user_alert(ua, user_id, alert_type, threshold) ==
    Put(ua, <<user_id, alert_type>>,
        [threshold |-> threshold, is_active |-> TRUE])

\* Database.remove_user_alert (lines 323-343): UPDATE ... SET is_active =
\* FALSE on the row, if there is one.
remove_user_alert(ua, user_id, alert_type) ==
    [key \in DOMAIN ua |->
        IF key = <<user_id, alert_type>>
        THEN [ua[key] EXCEPT !.is_active = FALSE]
        ELSE ua[key]]

\* Database.get_active_alerts (lines 345-367).
get_active_alerts(ua, alert_type) ==
    {[user_id |-> key[1], alert_type |-> key[2],
      threshold |-> ua[key].threshold] :
        key \in {k \in DOMAIN ua : ua[k].is_active /\ k[2] = alert_type}}

\* alerts_command (lines 14-73) with arguments action and, for 'set', the
\* threshold float() parsed.
alerts_command(ua, user_id, action, threshold) ==
    CASE action = "on" ->
            add_user_alert(
                add_user_alert(ua, user_id, "price_change", ON_PRICE_THRESHOLD),
                user_id, "arbitrage", ON_ARBITRAGE_THRESHOLD)
      [] action = "off" ->
            remove_user_alert(remove_user_alert(ua, user_id, "price_change"),
                              user_id, "arbitrage")
      [] OTHER -> add_user_alert(ua, user_id, "price_change", threshold)

\* The users whose latest on/off command was 'off'.
SwitchedOff == IF call.op \in {"alerts_command", "get_active_alerts"}
               THEN call.off ELSE {}

AlertsCommand(user_id, action, threshold) ==
    /\ user_alerts' = alerts_command(user_alerts, user_id, action, threshold)
    /\ call' = [op |-> "alerts_command", user_id |-> user_id,
                action |-> action, before |-> user_alerts,
                off |-> CASE action = "on" -> SwitchedOff \ {user_id}
                          [] action = "off" -> SwitchedOff \cup {user_id}
                          [] OTHER -> SwitchedOff,
                alerts |-> {}]
    /\ UNCHANGED <<active_connections, broadcast, local_prices, session,
                   origami_cache, now, cache, previous_prices, history,
                   arbitrage_history, config, pc, wakeAt, solo, lastGet,
                   fetched, cycles>>

\* The polling loop asks for the active alerts of one type (bot/main.py
\* lines 101 and 133).
GetActiveAlerts(alert_type) ==
    /\ call.op \in {"alerts_command", "get_active_alerts"}
    /\ call' = [op |-> "get_active_alerts", user_id |-> "",
                action |-> alert_type, before |-> user_alerts,
                off |-> SwitchedOff,
                alerts |-> get_active_alerts(user_alerts, alert_type)]
    /\ UNCHANGED <<user_alerts, active_connections, broadcast, local_prices,
                   session, origami_cache, now, cache, previous_prices,
                   history, arbitrage_history, config, pc, wakeAt, solo,
                   lastGet, fetched, cycles>>

NextAlertCmds ==
    \/ \E user_id \in Users, action \in {"on", "off"} :
          AlertsCommand(user_id, action, 0)
    \/ \E user_id \in Users, threshold \in SetThresholds :
          AlertsCommand(user_id, "set", threshold)
    \/ \E alert_type \in AlertTypes : GetActiveAlerts(alert_type)

SpecAlertCmds == InitPools /\ [][NextAlertCmds]_vars

(***************************************************************************)
(* ConnectionManager of the mini-app backend (app/main.py lines 47-63).    *)
(* broadcast iterates over the list active_connections and awaits          *)
(* send_json for each element; while it is suspended in an await, the      *)
(* websocket_endpoint coroutines of the clients run and connect or         *)
(* disconnect.  broadcast.index is the position of the list iterator: the  *)
(* number of elements the for loop has taken so far.                       *)
(***************************************************************************)
WebSockets == {"w1", "w2", "w3"}

InList(q, x) == \E i \in 1..Len(q) : q[i] = x
ElementsOf(q) == {q[i] : i \in 1..Len(q)}

\* list.remove(x): the first occurrence is taken out.
ListRemove(q, x) ==
    LET i == CHOOSE j \in 1..Len(q) :
                 q[j] = x /\ \A k \in 1..(j - 1) : q[k] # x
    IN SubSeq(q, 1, i - 1) \o SubSeq(q, i + 1, Len(q))

\* ConnectionManager.connect (lines 51-53).
connect(connections, websocket) == Append(connections, websocket)

\* ConnectionManager.disconnect (lines 55-56).
disconnect(connections, websocket) == ListRemove(connections, websocket)

\* What is observed of the broadcast under way: the connections registered
\* when it started, those that disconnected since, those the message was
\* sent to.
NoObservation == [op |-> "broadcast", done |-> FALSE, atStart |-> {},
                  left |-> {}, delivered |-> {}]
Observed == IF call.op = "broadcast" THEN call ELSE NoObservation

\* websocket_endpoint accepts a client (lines 236-238).
WsConnect(websocket) ==
    /\ ~InList(active_connections, websocket)
    /\ active_connections' = connect(active_connections, websocket)
    /\ call' = Observed
    /\ UNCHANGED <<user_alerts, broadcast, local_prices, session,
                   origami_cache, now, cache, previous_prices, history,
                   arbitrage_history, config, pc, wakeAt, solo, lastGet,
                   fetched, cycles>>

\* receive_text raises WebSocketDisconnect and the endpoint removes the
\* client (lines 272-279).
WsDisconnect(websocket) ==
    /\ InList(active_connections, websocket)
    /\ active_connections' = disconnect(active_connections, websocket)
    /\ call' = IF broadcast.running
               THEN [Observed EXCEPT !.left = @ \cup {websocket}]
               ELSE Observed
    /\ UNCHANGED <<user_alerts, broadcast, local_prices, session,
                   origami_cache, now, cache, previous_prices, history,
                   arbitrage_history, config, pc, wakeAt, solo, lastGet,
                   fetched, cycles>>

\* price_broadcast_task calls manager.broadcast (lines 104-109): the for
\* loop creates its iterator.
BroadcastStart ==
    /\ ~broadcast.running
    /\ broadcast' = [running |-> TRUE, index |-> 0]
    /\ call' = [NoObservation EXCEPT
                  !.atStart = ElementsOf(active_connections)]
    /\ UNCHANGED <<user_alerts, active_connections, local_prices, session,
                   origami_cache, now, cache, previous_prices, history,
                   arbitrage_history, config, pc, wakeAt, solo, lastGet,
                   fetched, cycles>>

\* One iteration (lines 59-63): the iterator hands out the element at its
\* index and advances, and the message is sent to that connection.
BroadcastSend ==
    /\ broadcast.running
    /\ broadcast.index < Len(active_connections)
    /\ broadcast' = [broadcast EXCEPT !.index = @ + 1]
    /\ call' = [Observed EXCEPT
                  !.delivered = @ \cup {active_connections[broadcast.index + 1]}]
    /\ UNCHANGED <<user_alerts, active_connections, local_prices, session,
                   origami_cache, now, cache, previous_prices, history,
                   arbitrage_history, config, pc, wakeAt, solo, lastGet,
                   fetched, cycles>>

\* The iterator is exhausted: its index has reached the length of the list.
BroadcastEnd ==
    /\ broadcast.running
    /\ broadcast.index >= Len(active_connections)
    /\ broadcast' = NoBroadcast
    /\ call' = [Observed EXCEPT !.done = TRUE]
    /\ UNCHANGED <<user_alerts, active_connections, local_prices, session,
                   origami_cache, now, cache, previous_prices, history,
                   arbitrage_history, config, pc, wakeAt, solo, lastGet,
                   fetched, cycles>>

NextWs ==
    \/ \E websocket \in WebSockets : WsConnect(websocket)
    \/ \E websocket \in WebSockets : WsDisconnect(websocket)
    \/ BroadcastStart
    \/ BroadcastSend
    \/ BroadcastEnd

SpecWs == InitPools /\ [][NextWs]_vars

(***************************************************************************)
(* Properties.                                                             *)
(***************************************************************************)
HasEventFor(changes, key) ==
    \E i \in 1..Len(changes) : changes[i].source = SourceName(key)

BothLegsNumeric(prices) ==
    /\ "dex_usdt" \in DOMAIN prices /\ "cex" \in DOMAIN prices
    /\ prices["dex_usdt"].price.k = "num" /\ prices["dex_usdt"].price.v > 0
    /\ prices["cex"].price_usd.k = "num" /\ prices["cex"].price_usd.v > 0

DexLeg(prices) == prices["dex_usdt"].price.v
CexLeg(prices) == prices["cex"].price_usd.v

\* The snapshot with the prices of the two comparison legs exchanged.
SwapLegs(prices) ==
    [prices EXCEPT !["dex_usdt"].price = prices["cex"].price_usd,
                   !["cex"].price_usd = prices["dex_usdt"].price]

\* C1: in the polling loop, a source observed in cycle N-1 and in cycle N
\* whose price moved by at least the threshold percent gets a price_change
\* event in cycle N, with old_price the cycle N-1 price and new_price the
\* cycle N price.
C1_ChangeBetweenCyclesReported ==
    call.op = "cycle" =>
        \A key \in (DOMAIN cycles.prev) \cap (DOMAIN call.prices) :
            LET p == cycles.prev[key].v
                c == call.prices[key].price.v
            IN (p # 0 /\ Abs(c - p) * 100 >= call.threshold * p) =>
                 \E i \in 1..Len(call.sig.changes) :
                    /\ call.sig.changes[i].source = SourceName(key)
                    /\ call.sig.changes[i].old_price = p
                    /\ call.sig.changes[i].new_price = c

\* C2: for every threshold, the detector returns no event for a source whose
\* current observation is its first one (the source had no baseline entry
\* when the cycle's get_all_prices was called).
C2_FirstObservationNeverAlerts ==
    call.op = "cycle" =>
        \A key \in (DOMAIN call.prices) \ (DOMAIN call.startBaseline) :
            ~HasEventFor(call.sig.changes, key)

\* C3: the baseline the change detector reads in a cycle is the one left by
\* the cycles completed before it; a cycle aborted by an exception, or one in
\* which every adapter failed, leaves every baseline entry as it was when
\* the cycle started.
C3_BaselineUpdatedAfterCycle ==
    call.op = "cycle" =>
        /\ call.baseline = call.startBaseline
        /\ call.raised => previous_prices = call.startBaseline
        /\ call.prices = EmptyDict => previous_prices = call.startBaseline

C5_CompleteSnapshotServedWithinTTL ==
    /\ [](lastGet.caller # "none" =>
            /\ lastGet.fresh <=> lastGet.hit
            /\ lastGet.hit => lastGet.verbatim)
    /\ [][\A c \in Callers :
            (pc[c] # "gather" /\ pc'[c] = "gather") =>
                ~(fetched.lastComplete.valid
                  /\ now - fetched.lastComplete.at <= CACHE_TTL)]_vars

C5_Witness ==
    /\ lastGet.caller # "none"
    /\ lastGet.hit /\ lastGet.fresh /\ lastGet.verbatim
    /\ lastGet.at = fetched.lastComplete.at + CACHE_TTL
    /\ pc[lastGet.caller] = "idle"

\* C6: whenever check_arbitrage_opportunity returns an event, buy_on names
\* the venue with the lower of the two compared prices and sell_on the venue
\* with the higher one, so buy_price <= sell_price.
C6_BuyOnCheaperVenue ==
    (call.op = "arb" /\ call.arb.present) =>
        LET e == call.arb.event IN
        /\ e.buy_price <= e.sell_price
        /\ e.buy_on = "STON.fi DEX" =>
              (DexLeg(call.prices) <= CexLeg(call.prices)
               /\ e.sell_on = "WEEX CEX")
        /\ e.buy_on = "WEEX CEX" =>
              (CexLeg(call.prices) <= DexLeg(call.prices)
               /\ e.sell_on = "STON.fi DEX")

C8_EventExactlyWhenAtLeastThreshold ==
    call.op = "sig" =>
        \A key \in (DOMAIN call.prices) \cap (DOMAIN call.baseline) :
            LET c == call.prices[key].price
                p == call.baseline[key]
            IN (c.k = "num" /\ p.k = "num" /\ p.v # 0) =>
                 (HasEventFor(call.sig.changes, key)
                    <=> Abs(c.v - p.v) * 100 >= call.threshold * p.v)

\* C8 amended: the threshold is inclusive (previous 1.00, current 1.05,
\* threshold 5.0 produces an event), and for a source whose current and
\* previous prices are both non-zero an event is emitted exactly when
\* |current - previous| / previous * 100 >= threshold; a current price of 0
\* produces no event.
C8_InclusiveThreshold ==
    call.op = "sig" =>
        \A key \in (DOMAIN call.prices) \cap (DOMAIN call.baseline) :
            LET c == call.prices[key].price
                p == call.baseline[key]
            IN /\ (c.k = "num" /\ p.k = "num" /\ p.v # 0 /\ c.v # 0) =>
                    (HasEventFor(call.sig.changes, key)
                       <=> Abs(c.v - p.v) * 100 >= call.threshold * p.v)
               /\ (c = Num(105) /\ p = Num(100) /\ call.threshold = 5) =>
                    HasEventFor(call.sig.changes, key)
               /\ (c = Num(0) /\ p.k = "num") =>
                    ~HasEventFor(call.sig.changes, key)

C8_Witness ==
    /\ call.op = "sig" /\ call.threshold = 5
    /\ "cex" \in DOMAIN call.prices /\ "cex" \in DOMAIN call.baseline
    /\ call.prices["cex"].price = Num(105) /\ call.baseline["cex"] = Num(100)
    /\ HasEventFor(call.sig.changes, "cex")

\* C9: check_arbitrage_opportunity returns absent, and raises nothing,
\* whenever the dex_usdt leg or the cex leg is missing from the snapshot or
\* has no price; no event is produced from a single leg.
C9_NoArbitrageFromSingleLeg ==
    (call.op = "arb"
     /\ \/ "dex_usdt" \notin DOMAIN call.prices
        \/ "cex" \notin DOMAIN call.prices
        \/ call.prices["dex_usdt"].price = NoneVal
        \/ call.prices["cex"].price_usd = NoneVal) =>
        (~call.arb.present /\ call.arb.raised = "none")

C9_Witness ==
    /\ call.op = "arb"
    /\ "dex_usdt" \notin DOMAIN call.prices
    /\ "dex_ton" \in DOMAIN call.prices
    /\ "cex" \in DOMAIN call.prices
    /\ call.prices["cex"].price_usd = Num(105)
    /\ call.threshold = 2
    /\ ~call.arb.present

\* C10: neither detector raises for a malformed price (a non-numeric string,
\* a numeric string, or a missing price), and a source with such a price
\* yields no event.
C10_MalformedPriceNeverRaises ==
    /\ call.op = "sig" =>
          /\ call.sig.raised = "none"
          /\ \A key \in DOMAIN call.prices :
                call.prices[key].price.k # "num" =>
                    ~HasEventFor(call.sig.changes, key)
    /\ call.op = "arb" =>
          /\ call.arb.raised = "none"
          /\ (\E key \in {"dex_usdt", "cex"} :
                 key \in DOMAIN call.prices
                 /\ call.prices[key].price.k # "num") => ~call.arb.present

(***************************************************************************)
(* Properties of the CEX source adapters.                                  *)
(***************************************************************************)
AdapterCall == call.op \in {"miniapp", "tracker"}

\* The call ended with a parsed HTTP 200 response.
Succeeded(c) ==
    /\ Len(c.responses) > 0
    /\ c.responses[Len(c.responses)] = "200"

\* Every request of the call was answered with response, and there was one.
AllAnswered(c, response) ==
    /\ Len(c.responses) > 0
    /\ \A i \in 1..Len(c.responses) : c.responses[i] = response

StrictlyIncreasing(q) == \A i \in 1..(Len(q) - 1) : q[i] < q[i + 1]

\* C11: once a fetch has succeeded (the rate-limit cache holds a record),
\* every later call of the mini-app adapter returns a record; when every
\* attempt of the call fails it returns the last fetched record, however
\* old that record is.
C11_StaleRecordAfterTotalFailure ==
    (call.op = "miniapp" /\ call.before.data # NoRecord) =>
        /\ call.result # NoRecord
        /\ (Len(call.responses) > 0 /\ ~Succeeded(call)) =>
              call.result = call.before.data

C11_Witness ==
    /\ call.op = "miniapp" /\ call.before.data # NoRecord
    /\ call.at - call.before.timestamp > MINIAPP_CACHE_TTL
    /\ call.responses = <<"timeout", "timeout", "timeout">>
    /\ call.result = call.before.data
    /\ call.result.price = Num(250)

\* C12: a call of the mini-app adapter made while the last successful result
\* is younger than the TTL returns the cached record and issues no request;
\* a call made when its age has reached the TTL issues a request.
C12_CachedWhileYoungerThanTTL ==
    (call.op = "miniapp" /\ call.before.data # NoRecord) =>
        LET age == call.at - call.before.timestamp IN
        /\ age < MINIAPP_CACHE_TTL =>
              (call.responses = <<>> /\ call.result = call.before.data)
        /\ age >= MINIAPP_CACHE_TTL => Len(call.responses) >= 1

C12_Witness ==
    /\ call.op = "miniapp" /\ call.before.data # NoRecord
    /\ call.at - call.before.timestamp = MINIAPP_CACHE_TTL
    /\ Len(call.responses) >= 1

\* C13: the rate-limit cache is empty or holds the record of a successful
\* fetch: it changes only in a call that ended with a parsed HTTP 200
\* response, to the record that call returned, and a failed call leaves it
\* as it was.
C13_CacheHoldsOnlySuccessfulFetch ==
    /\ [](origami_cache.data # NoRecord =>
            /\ origami_cache.data.source = "weex_cex"
            /\ origami_cache.data.price.k = "num"
            /\ origami_cache.data.timestamp = origami_cache.timestamp)
    /\ [][origami_cache' # origami_cache =>
            /\ call'.op = "miniapp" /\ Succeeded(call')
            /\ origami_cache' = [data |-> call'.result, timestamp |-> now']]_vars
    /\ []((call.op = "miniapp" /\ ~Succeeded(call)) =>
            origami_cache = call.before)

C13_Witness ==
    /\ call.op = "miniapp" /\ call.before.data # NoRecord
    /\ Len(call.responses) = MAX_RETRIES /\ ~Succeeded(call)
    /\ origami_cache = call.before

\* C14: when the upstream answers 429 to every attempt, either adapter
\* issues exactly max_retries requests and the delays it waits between
\* consecutive attempts are strictly increasing.
C14_RateLimitedThreeAttempts ==
    (AdapterCall /\ AllAnswered(call, "429")) =>
        /\ Len(call.responses) = MAX_RETRIES
        /\ Len(call.delays) = MAX_RETRIES - 1
        /\ StrictlyIncreasing(call.delays)

C14_Witness ==
    /\ call.op = "tracker"
    /\ call.responses = <<"429", "429", "429">>
    /\ call.delays = <<2, 4>>
    /\ call.result = NoRecord

\* C15: a 4xx response other than 429 ends the call: no further request is
\* issued and no delay is waited after it; answered first, the call issues
\* exactly one request and waits nothing.
C15_ClientErrorNotRetried ==
    AdapterCall =>
        \A i \in 1..Len(call.responses) :
            call.responses[i] = "4xx" =>
                /\ i = Len(call.responses)
                /\ Len(call.delays) = i - 1

C15_Witness ==
    /\ call.op = "miniapp"
    /\ call.responses = <<"4xx">>
    /\ call.delays = <<>>
    /\ call.result = NoRecord

\* C16: PriceTracker.get_origami_price retries an HTTP 5xx response like a
\* 429: answered 5xx on every attempt it issues max_retries requests, with
\* increasing delays between them.
C16_ServerErrorRetried ==
    (call.op = "tracker" /\ AllAnswered(call, "5xx")) =>
        /\ Len(call.responses) = MAX_RETRIES
        /\ Len(call.delays) = MAX_RETRIES - 1
        /\ StrictlyIncreasing(call.delays)

\* C17: a malformed HTTP 200 payload is not retried: it is the last response
\* of the call in either adapter, and answered first the call issues a
\* single request.
C17_MalformedPayloadNotRetried ==
    AdapterCall =>
        \A i \in 1..Len(call.responses) :
            call.responses[i] = "malformed" => i = Len(call.responses)

(***************************************************************************)
(* Properties of get_all_prices and of the enrichment.                     *)
(***************************************************************************)
IsRecord(x) == x # NoRecord /\ x # RaisedException

\* The rows of source inside the trailing 24-hour window, oldest first.
WindowRows(h, source, t) ==
    SelectSeq(h, LAMBDA r : r.source = source
                            /\ r.timestamp >= t - HISTORY_HOURS_SECONDS)

\* The prices of rows together with the price current.
WindowPrices(rows, current) ==
    {rows[i].price.v : i \in 1..Len(rows)} \cup {current}

\* C18: whatever subset of the three adapters fails (returns None or
\* raises), get_all_prices returns a snapshot whose keys are exactly those
\* of the adapters that produced a record, each with the record the adapter
\* produced (the enrichment only rewrites the 24h statistics).
C18_PartialFailureKeepsTheRest ==
    call.op = "get_all_prices" =>
        /\ DOMAIN call.prices = {k \in SourceKeys : IsRecord(call.outcomes[k])}
        /\ \A k \in DOMAIN call.prices :
              /\ DOMAIN call.prices[k] = DOMAIN call.outcomes[k]
              /\ call.prices[k].source = call.outcomes[k].source
              /\ call.prices[k].pair = call.outcomes[k].pair
              /\ call.prices[k].price = call.outcomes[k].price
              /\ call.prices[k].price_usd = call.outcomes[k].price_usd
              /\ call.prices[k].timestamp = call.outcomes[k].timestamp

C18_Witness ==
    /\ call.op = "get_all_prices"
    /\ call.outcomes["dex_ton"] = RaisedException
    /\ call.outcomes["dex_usdt"] = NoRecord
    /\ DOMAIN call.prices = {"cex"}
    /\ call.prices["cex"].price = Num(105)

\* C19: for every record enriched from a history holding at least two
\* points of its source in the trailing 24 hours, change_24h is the
\* percentage change from the oldest of those points to the current price,
\* however many points the window holds.
C19_ChangeFromOldestInWindow ==
    (call.op = "get_all_prices" /\ call.dbOk) =>
        \A k \in DOMAIN call.prices :
            LET rec == call.prices[k]
                rows == WindowRows(history, rec.source, now)
            IN (Len(rows) >= 2 /\ rows[1].price.v > 0) =>
                 rec.change_24h[1] * rows[1].price.v
                   = (rec.price.v - rows[1].price.v) * 100 * rec.change_24h[2]

\* C20: for every record enriched from a history holding at least two
\* points, high_24h is the maximum and low_24h the minimum over the prices
\* of all the points of its source in the trailing 24 hours and the current
\* price, so low_24h <= price <= high_24h.
C20_HighLowOverWholeWindow ==
    (call.op = "get_all_prices" /\ call.dbOk) =>
        \A k \in DOMAIN call.prices :
            LET rec == call.prices[k]
                rows == WindowRows(history, rec.source, now)
                all == WindowPrices(rows, rec.price.v)
            IN Len(rows) >= 2 =>
                 /\ rec.high_24h \in all /\ \A p \in all : p <= rec.high_24h
                 /\ rec.low_24h \in all /\ \A p \in all : rec.low_24h <= p
                 /\ rec.low_24h <= rec.price.v
                 /\ rec.price.v <= rec.high_24h

\* C21: when the history of a record's source holds fewer than two points
\* in the trailing 24 hours, the enrichment of get_all_prices leaves
\* high_24h, low_24h and change_24h at the values the adapter supplied and
\* changes no other field: the record is the one the adapter returned.
C21_FewerThanTwoPointsLeavesRecord ==
    call.op = "get_all_prices" =>
        \A k \in DOMAIN call.prices :
            Len(WindowRows(history, call.prices[k].source, now)) < 2 =>
                call.prices[k] = call.outcomes[k]

C21_Witness ==
    /\ call.op = "get_all_prices"
    /\ call.dbOk
    /\ "cex" \in DOMAIN call.prices
    /\ Len(history) = 2
    /\ Len(WindowRows(history, "weex_cex", now)) = 1
    /\ call.prices["cex"].price = Num(105)
    /\ call.prices["cex"].high_24h = 0
    /\ call.prices["cex"] = call.outcomes["cex"]

\* C22: enrich_with_db_stats applied a second time to the snapshot it has
\* enriched, with the same rows in the store and the store as available as
\* the first time, leaves high_24h, low_24h and change_24h of every record
\* as the first application set them.
C22_EnrichmentIdempotent ==
    (call.op = "enrich_with_db_stats" /\ call.dbOk = call.firstDbOk) =>
        /\ DOMAIN call.prices = DOMAIN call.before
        /\ \A k \in DOMAIN call.prices :
              /\ call.prices[k].high_24h = call.before[k].high_24h
              /\ call.prices[k].low_24h = call.before[k].low_24h
              /\ call.prices[k].change_24h = call.before[k].change_24h

C22_Witness ==
    /\ call.op = "enrich_with_db_stats"
    /\ call.dbOk
    /\ call.firstDbOk
    /\ "cex" \in DOMAIN call.prices
    /\ call.outcomes["cex"].high_24h = 0
    /\ call.before["cex"].high_24h = 105
    /\ call.before["cex"].low_24h = 95
    /\ call.before["cex"].change_24h = <<1000, 95>>
    /\ call.prices["cex"] = call.before["cex"]

AggregatorOps ==
    {"get_all_prices", "enrich_with_db_stats", "get_24h_stats",
     "check_significant_changes", "check_arbitrage_opportunity"}

\* C24: no operation of the aggregator (get_all_prices,
\* enrich_with_db_stats, get_24h_stats, check_significant_changes,
\* check_arbitrage_opportunity) changes the rows of the historical store;
\* the price history changes only in a step of the polling loop's save_price
\* or of the retention sweep.
C24_AggregatorNeverWritesStore ==
    [][/\ call'.op \in AggregatorOps =>
            (history' = history /\ arbitrage_history' = arbitrage_history)
       /\ history' # history =>
            call'.op \in {"save_price", "cleanup_old_data"}]_vars

C24_Witness ==
    /\ call.op = "get_24h_stats"
    /\ call.dbOk
    /\ "cex" \in DOMAIN call.prices
    /\ call.result["cex"].high = 105
    /\ call.result["cex"].low = 95
    /\ Len(history) = 2
    /\ history[1].timestamp = -3600

(***************************************************************************)
(* Properties of the polling loop under fair scheduling.                   *)
(***************************************************************************)
\* The times at which a cooldown can end within the modelled time.
CooldownEnds == {w \in 0..MaxTime : w >= ERROR_COOLDOWN}

\* C25: an exception raised inside a polling cycle does not end the loop:
\* the loop is left waiting the cooldown (60 s from the failure, which is
\* no earlier than the cycle's get_all_prices call), and once
\* the cooldown has ended a further cycle is started, that is, the loop
\* calls get_all_prices again.
C25_ExceptionNeverEndsLoop ==
    /\ []((call.op = "cycle" /\ call.raised /\ pc["loop"] # "gather") =>
            /\ pc["loop"] = "cooldown"
            /\ wakeAt >= lastGet.at + ERROR_COOLDOWN
            /\ wakeAt <= now + ERROR_COOLDOWN)
    /\ [](pc["loop"] \in {"sleep", "cooldown", "gather"})
    /\ \A w \in CooldownEnds :
          (pc["loop"] = "cooldown" /\ wakeAt = w)
              ~> (lastGet.caller = "loop" /\ lastGet.at >= w)

C25_Witness ==
    /\ call.op = "cycle"
    /\ call.raised
    /\ wakeAt >= ERROR_COOLDOWN
    /\ pc["loop"] = "gather"
    /\ lastGet.caller = "loop"
    /\ lastGet.at >= wakeAt

(***************************************************************************)
(* Properties of the snapshots handed to consumers.                        *)
(***************************************************************************)
\* All records of the snapshot were fetched by one gather.
SingleCycle(s) ==
    \A k1 \in DOMAIN s, k2 \in DOMAIN s : s[k1].timestamp = s[k2].timestamp

\* The record as its adapter returned it.
RawRecord(rec) ==
    [rec EXCEPT !.change_24h = <<0, 1>>, !.high_24h = 0, !.low_24h = 0]

\* The snapshot is the result of one run of the enrichment over all of its
\* records (with the store available or not).
WhollyEnriched(s) ==
    \E dbOk \in BOOLEAN :
        s = enrich_with_db_stats([k \in DOMAIN s |-> RawRecord(s[k])],
                                 history, now, dbOk)

\* C26: under every interleaving of overlapping get_all_prices calls and
\* cache reads, a snapshot a consumer receives, and the snapshot the cache
\* holds, consists of records of one gather only and has been enriched as
\* a whole; a cache read returns the latest complete snapshot a call
\* returned, never the dict of a call still in flight.
C26_SnapshotOfSingleCycle ==
    /\ call.op = "snapshot" =>
          /\ SingleCycle(call.prices)
          /\ WhollyEnriched(call.prices)
          /\ call.hit => (fetched.lastComplete.valid
                          /\ call.prices = fetched.lastComplete.prices)
    /\ "all_prices" \in DOMAIN cache =>
          /\ SingleCycle(cache["all_prices"].value)
          /\ WhollyEnriched(cache["all_prices"].value)
          /\ cache["all_prices"].value = fetched.lastComplete.prices

C26_Witness ==
    /\ call.op = "snapshot"
    /\ call.caller = "c2"
    /\ call.hit
    /\ call.at = 30
    /\ DOMAIN call.prices = SourceKeys
    /\ call.prices["cex"].timestamp = 0
    /\ pc["c1"] = "enrich"
    /\ DOMAIN local_prices["c1"] = {"cex"}
    /\ local_prices["c1"]["cex"].timestamp = 30

(***************************************************************************)
(* Properties of the consumer-facing queries.                              *)
(***************************************************************************)
\* C27: a /price, /stats or /arbitrage command or an /api/stats or
\* /api/arbitrage request that finds the snapshot empty reports that prices
\* are unavailable.
C27_EmptySnapshotReportedUnavailable ==
    (call.op \in CommandOps \cup EndpointOps /\ call.prices = EmptyDict) =>
        call.reply = "unavailable"

\* C28: a command of the bot process or the monitoring task handled while
\* the cache of the shared tracker holds a fresh complete snapshot causes
\* no upstream request.
C28_FreshSharedCacheNoUpstream ==
    (call.op \in CommandOps \cup SharedOps /\ call.sharedFresh) =>
        ~call.upstream

(***************************************************************************)
(* Properties of the per-user alerts.                                      *)
(***************************************************************************)
\* C29: a user with an active price alert of threshold T is sent an alert
\* in every polling cycle in which the price of some source changed by more
\* than T percent since the previous cycle, whatever T is.
C29_UserThresholdAlerted ==
    call.op = "alerts" =>
        ((\E k \in (DOMAIN call.prices) \cap (DOMAIN call.prev) :
             /\ call.prev[k].v > 0
             /\ Abs(call.prices[k].price.v - call.prev[k].v) * 100
                  > call.T * call.prev[k].v)
         => call.sent # {})

(***************************************************************************)
(* Properties of the session.                                              *)
(***************************************************************************)
\* C30: close() never raises; called when no session was ever opened, or
\* when the session is already closed, it changes nothing; called on an open
\* session it closes it; and a fetch that goes upstream after close() (or
\* before any session exists) creates a session and uses an open one.
C30_CloseSafeInEveryState ==
    /\ session \in {"None", "open", "closed"}
    /\ call.op = "close" =>
          /\ ~call.raised
          /\ call.before \in {"None", "closed"} => session = call.before
          /\ call.before = "open" => session = "closed"
    /\ (call.op = "fetch" /\ ~call.hit) =>
          /\ call.used = "open"
          /\ session = "open"
          /\ call.before \in {"None", "closed"} => call.created

C30_Witness ==
    /\ call.op = "fetch"
    /\ ~call.hit
    /\ call.before = "closed"
    /\ call.created
    /\ session = "open"

\* The pool answer carries a pool whose base-side (HOLDER) reserve is zero.
ZeroBaseReserve(answer) ==
    /\ answer.status = 200
    /\ answer.pool_list # <<>>
    /\ answer.pool_list[1].reserve1 = 0

\* C31: a pool whose base-side reserve is zero never causes a division error
\* and yields no price: the DEX adapter's result for it is absent, and the
\* source's key is omitted from the snapshot rather than appearing with
\* price 0.
C31_ZeroReserveYieldsAbsent ==
    call.op = "pool_get_all_prices" =>
        /\ ~call.raised
        /\ ZeroBaseReserve(call.tonPool) =>
              /\ call.outcomes["dex_ton"] = NoRecord
              /\ "dex_ton" \notin DOMAIN call.prices
        /\ ZeroBaseReserve(call.usdtPool) =>
              /\ call.outcomes["dex_usdt"] = NoRecord
              /\ "dex_usdt" \notin DOMAIN call.prices

\* C32: for every snapshot in which both comparison legs are present,
\* get_24h_stats and check_arbitrage_opportunity agree at the 2% threshold:
\* stats['arbitrage']['opportunity'] is true exactly when
\* check_arbitrage_opportunity(snapshot, 2.0) returns an event, a difference
\* of exactly 2% included.
C32_StatsAndDetectorAgree ==
    (call.op = "check_arbitrage_opportunity" /\ BothLegsNumeric(call.prices))
        => /\ call.stats["arbitrage"] # NoRecord
           /\ call.stats["arbitrage"].opportunity <=> call.arb.present

\* A value get_origami_price may return: a price record of the CEX.
IsCexRecord(x) ==
    /\ x # NoRecord
    /\ x.source = "weex_cex"
    /\ x.price.k = "num"

\* C33: for every sequence of upstream outcomes (200, 429, 5xx, other 4xx,
\* timeout, other exception) a single CEX adapter call terminates after
\* issuing at most max_retries (3) upstream requests, and returns either a
\* record or absent.
C33_AdapterCallBounded ==
    call.op \in {"miniapp_call", "tracker_call"} =>
        /\ call.returned
        /\ call.requests <= 3
        /\ call.result = NoRecord \/ IsCexRecord(call.result)

\* Three requests were issued, none of them answered with a usable record.
C33_Witness ==
    /\ call.op = "tracker_call"
    /\ call.returned
    /\ call.responses = <<"timeout", "malformed", "429">>
    /\ call.result = NoRecord

\* The callers whose get_all_prices has missed the cache and awaits its
\* adapters.
FanOutsInFlight == {c \in Callers : pc[c] = "gather"}

\* C34: when two get_all_prices calls on the same tracker overlap while the
\* snapshot cache holds no fresh entry, the adapters are invoked for only one
\* of them: at most one fan-out of upstream requests is in flight per tracker
\* at any time.
C34_SingleFanOutInFlight == Cardinality(FanOutsInFlight) <= 1

\* C35: every arbitrage event the polling loop persists is stored with
\* dex_price equal to the DEX leg's price and cex_price equal to the CEX
\* leg's price of the snapshot that produced it, whichever leg is the buy
\* side.
C35_PersistedLegsMatchSnapshot ==
    [][Len(arbitrage_history') = Len(arbitrage_history) + 1 =>
          LET row == arbitrage_history'[Len(arbitrage_history')] IN
          /\ call'.op = "cycle"
          /\ BothLegsNumeric(call'.prices)
          /\ row.dex_price = DexLeg(call'.prices)
          /\ row.cex_price = CexLeg(call'.prices)]_vars

\* C38: SimpleCache.get(key, max_age) returns the stored value exactly when
\* an entry for key exists whose age does not exceed max_age, independently
\* of earlier get calls: a get with a smaller max_age that found the entry
\* expired does not change the result of a later get with a larger max_age
\* that the entry still satisfies.
C38_GetDependsOnAgeOnly ==
    call.op = "cache_get" =>
        LET s == call.stored[call.key] IN
        /\ call.hit <=> (s.valid /\ call.at - s.at <= call.max_age)
        /\ call.hit => call.value = s.value

\* C36: '/alerts set <threshold>' changes only the threshold of the user's
\* price-change alert: for every sequence of on/off/set commands, a user
\* whose alerts were switched off stays switched off after a set, and after
\* '/alerts off' no alert of that user is returned by get_active_alerts
\* until an explicit '/alerts on'.
C36_SetKeepsSwitchedOff ==
    /\ (call.op = "alerts_command" /\ call.action = "set") =>
          \A key \in DOMAIN call.before :
              user_alerts[key].is_active = call.before[key].is_active
    /\ call.op = "get_active_alerts" =>
          \A a \in call.alerts : a.user_id \notin call.off

\* C37: a WebSocket broadcast reaches every connection that is registered
\* when the broadcast starts and is still registered when it ends, under any
\* interleaving with other clients disconnecting during the broadcast; a
\* disconnect of one client never causes another connected client to be
\* skipped.
C37_BroadcastReachesEveryone ==
    (call.op = "broadcast" /\ call.done) =>
        \A websocket \in call.atStart \ call.left :
            websocket \in call.delivered

====
